---- MODULE Spec2Model ----
(***************************************************************************)
(* A model of the project / version / team mutation layer of the mod       *)
(* hosting backend: team membership and permission grants (routes/teams),  *)
(* the primary-file edit of a version (routes/versions), the project       *)
(* creation saga over the relational store and the blob store              *)
(* (routes/project_creation) and the slug rules (project_creation and      *)
(* routes/projects).  Each area has its own specification over the shared  *)
(* variables; the variables of the other areas stay at their idle value.   *)
(***************************************************************************)
EXTENDS Integers, Sequences, FiniteSets, TLC

VARIABLES
    team_members,   \* the team_members table: a set of rows
    team_last,      \* the last team request: what it was, what it read, what it answered
    files,          \* the files table: file id -> [version_id, is_primary]
    hashes,         \* the hashes table: a set of [file_id, algorithm, hash]
    version_last,   \* the last version_edit: its version, designator and answer
    mods,           \* the mods (projects) table: a set of rows
    versions,       \* the versions table: a set of rows
    blobs,          \* the blob store: the ids of the blobs it holds (the icons: [file_name, bytes])
    create,         \* the project_create request in flight: its locals
    project_last,   \* the last project_create / project_edit: what it asked and was answered
    search_index,   \* the search index: the project ids it holds a document local-{id} for
    indexing_queue, \* the indexing queue: the project ids waiting to be indexed
    request_last,   \* the last project_edit, read or delete request: what it asked and was answered
    mod_follows,    \* the mod_follows table: a set of [follower_id, mod_id]
    mods_follows,   \* the follows column of mods: project id -> counter
    downloads,      \* the downloads table: a sequence of [version_id, identifier, date]
    versions_downloads, \* the downloads column of versions: version id -> counter
    mods_downloads, \* the downloads column of mods: project id -> counter
    clock,          \* the time of the database, in ticks
    download,       \* the download_version requests in flight: their locals
    notifications,  \* the notifications table: a set of rows
    notifications_actions \* the notifications_actions table: a set of rows

teamVars == <<team_members, team_last>>

versionVars == <<files, hashes, version_last>>

projectVars == <<mods, versions, blobs, create, project_last>>

indexVars == <<search_index, indexing_queue, request_last>>

followVars == <<mod_follows, mods_follows>>

downloadVars == <<downloads, versions_downloads, mods_downloads, clock, download>>

notificationVars == <<notifications, notifications_actions>>

activityVars == <<followVars, downloadVars, notificationVars>>

vars == <<teamVars, versionVars, projectVars, indexVars, activityVars>>

NonTeamVars == <<versionVars, projectVars, indexVars, activityVars>>

NonVersionVars == <<team_last, projectVars, indexVars, activityVars>>

NonProjectVars == <<team_last, versionVars, indexVars, activityVars>>

(***************************************************************************)
(* Permissions (models/teams.rs): a bitset, modelled as the set of the     *)
(* positions of its bits.                                                  *)
(***************************************************************************)
UPLOAD_VERSION == 0
DELETE_VERSION == 1
EDIT_DETAILS == 2
EDIT_BODY == 3
MANAGE_INVITES == 4
REMOVE_MEMBER == 5
EDIT_MEMBER == 6
DELETE_PROJECT == 7

PermissionsALL == 0..7

PermissionsDefault == {}

\* Permissions::contains: every bit of q is a bit of p
Contains(p, q) == q \subseteq p

OWNER_ROLE == "Owner"

(***************************************************************************)
(* Identifiers (models/ids.rs): the base-62 form of an id.  A string is a  *)
(* sequence of one-character strings.                                      *)
(***************************************************************************)
Base62Chars ==
    << "0", "1", "2", "3", "4", "5", "6", "7", "8", "9",
       "A", "B", "C", "D", "E", "F", "G", "H", "I", "J", "K", "L", "M",
       "N", "O", "P", "Q", "R", "S", "T", "U", "V", "W", "X", "Y", "Z",
       "a", "b", "c", "d", "e", "f", "g", "h", "i", "j", "k", "l", "m",
       "n", "o", "p", "q", "r", "s", "t", "u", "v", "w", "x", "y", "z" >>

\* the value of a base-62 digit, -1 for any other character
DigitValue(c) ==
    IF \E i \in 1..62 : Base62Chars[i] = c
    THEN (CHOOSE i \in 1..62 : Base62Chars[i] = c) - 1
    ELSE -1

\* parse_base62: the id a string denotes, -1 when it denotes none (a
\* character that is no digit; the strings of the model are too short to
\* leave 64 bits)
RECURSIVE ParseBase62From(_, _)
ParseBase62From(s, num) ==
    IF s = <<>> THEN num
    ELSE IF DigitValue(Head(s)) = -1 THEN -1
    ELSE ParseBase62From(Tail(s), num * 62 + DigitValue(Head(s)))

ParseBase62(s) == IF s = <<>> THEN -1 ELSE ParseBase62From(s, 0)

\* to_base62: the string of an id
RECURSIVE ToBase62(_)
ToBase62(num) ==
    IF num < 62 THEN << Base62Chars[num + 1] >>
    ELSE Append(ToBase62(num \div 62), Base62Chars[(num % 62) + 1])

\* SQL LOWER on one character and on a string
LowerChar(c) ==
    IF \E i \in 11..36 : Base62Chars[i] = c
    THEN Base62Chars[(CHOOSE i \in 11..36 : Base62Chars[i] = c) + 26]
    ELSE c

Lower(s) == [i \in 1..Len(s) |-> LowerChar(s[i])]

(***************************************************************************)
(* The team area.                                                          *)
(***************************************************************************)
Users == {"u1", "u2"}

\* a request whose headers resolve to no user
NoUser == "anonymous"

\* team ids
Teams == {1}

Roles == {OWNER_ROLE, "Member"}

\* the permission sets a request may name
PermChoices ==
    { PermissionsDefault,
      {MANAGE_INVITES},
      {REMOVE_MEMBER, EDIT_MEMBER},
      PermissionsALL }

\* the most rows the table holds
MaxRows == 2

\* the result of a lookup that found no row
NoRow == [id |-> 0, team_id |-> 0, user_id |-> "", role |-> "",
          permissions |-> {}, accepted |-> FALSE]

\* TeamMember::get_from_user_id: the rows of the user in the team
GetFromUserId(team_id, user_id) ==
    { r \in team_members : r.team_id = team_id /\ r.user_id = user_id }

\* fetch_optional: one of the rows the query matches, or none
FetchOptional(rows) == IF rows = {} THEN {NoRow} ELSE rows

\* generate_team_member_id: an id no row of the table has
GenerateTeamMemberId ==
    CHOOSE i \in 1..(Cardinality(team_members) + 1) :
        \A r \in team_members : r.id # i

\* TeamMember::edit_team_member: update the rows of (team, user); an option
\* is the empty set (None) or a singleton (Some)
EditRows(rows, team_id, user_id, new_permissions, new_role, new_accepted) ==
    { IF r.team_id = team_id /\ r.user_id = user_id
      THEN [r EXCEPT
               !.permissions = IF new_permissions = {} THEN @
                               ELSE CHOOSE p \in new_permissions : TRUE,
               !.role = IF new_role = {} THEN @
                        ELSE CHOOSE x \in new_role : TRUE,
               !.accepted = IF new_accepted = {} THEN @
                            ELSE CHOOSE a \in new_accepted : TRUE]
      ELSE r : r \in rows }

\* TeamMember::delete: delete the rows of (team, user)
DeleteRows(rows, team_id, user_id) ==
    { r \in rows : ~(r.team_id = team_id /\ r.user_id = user_id) }

\* add_team_member without the check that the grantor holds the granted bits
AddTeamMemberNoSubsetCheck(member, new_member) ==
    IF member # NoRow
    THEN IF Contains(member.permissions, {MANAGE_INVITES})
            /\ new_member.role # OWNER_ROLE
         THEN "Ok"
         ELSE "AuthenticationError"
    ELSE "AuthenticationError"

\* add_team_member: the answer, given the caller's row and the new member
AddTeamMemberResult(member, new_member) ==
    IF member # NoRow
    THEN IF Contains(member.permissions, {MANAGE_INVITES})
            /\ new_member.role # OWNER_ROLE
         THEN IF ~Contains(member.permissions, new_member.permissions)
              THEN "AuthenticationError"
              ELSE "Ok"
         ELSE "AuthenticationError"
    ELSE "AuthenticationError"

\* edit_team_member without the test of the role for OWNER_ROLE
EditTeamMemberAnyRole(member, edit_member) ==
    IF member # NoRow
    THEN IF Contains(member.permissions, {EDIT_MEMBER})
         THEN IF edit_member.permissions # {}
                 /\ \E p \in edit_member.permissions :
                        ~Contains(member.permissions, p)
              THEN "AuthenticationError"
              ELSE "Ok"
         ELSE "AuthenticationError"
    ELSE "AuthenticationError"

\* edit_team_member asking for MANAGE_INVITES where the code asks for EDIT_MEMBER
EditTeamMemberWrongBit(member, edit_member) ==
    IF member # NoRow
    THEN IF Contains(member.permissions, {MANAGE_INVITES})
            /\ edit_member.role # {OWNER_ROLE}
         THEN IF edit_member.permissions # {}
                 /\ \E p \in edit_member.permissions :
                        ~Contains(member.permissions, p)
              THEN "AuthenticationError"
              ELSE "Ok"
         ELSE "AuthenticationError"
    ELSE "AuthenticationError"

\* edit_team_member: the answer, given the caller's row and the edit
EditTeamMemberResult(member, edit_member) ==
    IF member # NoRow
    THEN IF Contains(member.permissions, {EDIT_MEMBER})
            /\ edit_member.role # {OWNER_ROLE}
         THEN IF edit_member.permissions # {}
                 /\ \E p \in edit_member.permissions :
                        ~Contains(member.permissions, p)
              THEN "AuthenticationError"
              ELSE "Ok"
         ELSE "AuthenticationError"
    ELSE "AuthenticationError"

\* remove_team_member: the answer, given the caller's row and the target's
RemoveTeamMemberResult(member, delete_member) ==
    IF member # NoRow
    THEN IF delete_member # NoRow
         THEN IF delete_member.accepted
              THEN IF REMOVE_MEMBER \in member.permissions
                   THEN "Ok" ELSE "AuthenticationError"
              ELSE IF MANAGE_INVITES \in member.permissions
                   THEN "Ok" ELSE "AuthenticationError"
         ELSE "NotFound"
    ELSE "AuthenticationError"

\* what a team request was and what it answered: the caller, the team and
\* the user of its path, the role of its body (an option), the caller's row
\* as the handler read it, the bitsets it wrote, its answer and the members
\* of its body
TeamLastOf(op, member, written, result, caller, team_id, user_id, role) ==
    [op |-> op, has_row |-> member # NoRow, caller_perms |-> member.permissions,
     written |-> written, result |-> result, caller |-> caller,
     team_id |-> team_id, user_id |-> user_id, role |-> role, response |-> {}]

TeamLast(op, member, written, result) ==
    TeamLastOf(op, member, written, result, NoUser, 0, "", {})

\* POST {id}/members, for one of the given teams and bitsets, while the
\* table holds fewer than max_rows rows
AddTeamMemberIn(teams, perm_choices, max_rows) ==
    \E caller \in Users \cup {NoUser}, team_id \in teams,
       user_id \in Users, role \in Roles, permissions \in perm_choices :
      \E member \in FetchOptional(GetFromUserId(team_id, caller)) :
        LET new_member == [user_id |-> user_id, role |-> role,
                           permissions |-> permissions]
            result == AddTeamMemberResult(member, new_member)
        IN  /\ Cardinality(team_members) < max_rows
            /\ team_members' =
                 IF result = "Ok"
                 THEN team_members \cup
                        {[id |-> GenerateTeamMemberId, team_id |-> team_id,
                          user_id |-> user_id, role |-> role,
                          permissions |-> permissions, accepted |-> FALSE]}
                 ELSE team_members
            /\ team_last' = TeamLastOf("add", member,
                                IF result = "Ok" THEN {permissions} ELSE {}, result,
                                caller, team_id, user_id, {role})
            /\ UNCHANGED NonTeamVars

AddTeamMember == AddTeamMemberIn(Teams, PermChoices, MaxRows)

\* PATCH {id}/members/{user_id}, for one of the given teams and bitsets
EditTeamMemberIn(teams, perm_choices) ==
    \E caller \in Users \cup {NoUser}, team_id \in teams, user_id \in Users,
       permissions \in {{}} \cup {{p} : p \in perm_choices},
       role \in {{}} \cup {{x} : x \in Roles} :
      \E member \in FetchOptional(GetFromUserId(team_id, caller)) :
        LET edit_member == [permissions |-> permissions, role |-> role]
            result == EditTeamMemberResult(member, edit_member)
            wrote == result = "Ok" /\ GetFromUserId(team_id, user_id) # {}
        IN  /\ team_members' =
                 IF result = "Ok"
                 THEN EditRows(team_members, team_id, user_id, permissions, role, {})
                 ELSE team_members
            /\ team_last' = TeamLastOf("edit", member,
                                IF wrote THEN permissions ELSE {}, result,
                                caller, team_id, user_id, role)
            /\ UNCHANGED NonTeamVars

EditTeamMember == EditTeamMemberIn(Teams, PermChoices)

\* DELETE {id}/members/{user_id}, for one of the given teams
RemoveTeamMemberIn(teams) ==
    \E caller \in Users \cup {NoUser}, team_id \in teams, user_id \in Users :
      \E member \in FetchOptional(GetFromUserId(team_id, caller)) :
        \E delete_member \in FetchOptional(GetFromUserId(team_id, user_id)) :
          LET result == RemoveTeamMemberResult(member, delete_member)
          IN  /\ team_members' =
                   IF result = "Ok"
                   THEN DeleteRows(team_members, team_id, user_id)
                   ELSE team_members
              /\ team_last' = TeamLastOf("remove", member, {}, result,
                                         caller, team_id, user_id, {})
              /\ UNCHANGED NonTeamVars

RemoveTeamMember == RemoveTeamMemberIn(Teams)

\* join_team writing the rows of the user in every team
JoinTeamEveryTeam(teams) ==
    \E caller \in Users \cup {NoUser}, team_id \in teams :
      /\ team_members' =
           IF caller # NoUser
           THEN { IF r.user_id = caller THEN [r EXCEPT !.accepted = TRUE] ELSE r :
                    r \in team_members }
           ELSE team_members
      /\ team_last' = TeamLastOf("join", NoRow, {},
                            IF caller # NoUser THEN "Ok" ELSE "AuthenticationError",
                            caller, team_id, caller, {})
      /\ UNCHANGED NonTeamVars

\* POST {id}/join, for one of the given teams
JoinTeamIn(teams) ==
    \E caller \in Users \cup {NoUser}, team_id \in teams :
      /\ team_members' =
           IF caller # NoUser
           THEN EditRows(team_members, team_id, caller, {}, {}, {TRUE})
           ELSE team_members
      /\ team_last' = TeamLastOf("join", NoRow, {},
                            IF caller # NoUser THEN "Ok" ELSE "AuthenticationError",
                            caller, team_id, caller, {})
      /\ UNCHANGED NonTeamVars

JoinTeam == JoinTeamIn(Teams)

\* TeamMember::get_from_team: the rows of a team
GetFromTeam(rows, team_id) == { r \in rows : r.team_id = team_id }

\* the body of GET {id}/members that shows every member's bits to every
\* caller who is logged in
TeamMembersShownToUsers(rows, team_id, caller) ==
    { [row |-> data.id, user_id |-> data.user_id, role |-> data.role,
       permissions |-> IF caller # NoUser
                       THEN data.permissions ELSE PermissionsDefault] :
        data \in GetFromTeam(rows, team_id) }

\* the body of GET {id}/members: one member per row of the team (row is its
\* place in the list), with the stored bits for a caller who has a row in the
\* team and Permissions::default() for every other caller
TeamMembersResponse(rows, team_id, caller) ==
    { [row |-> data.id, user_id |-> data.user_id, role |-> data.role,
       permissions |-> IF /\ caller # NoUser
                          /\ \E m \in rows : m.team_id = team_id /\ m.user_id = caller
                       THEN data.permissions ELSE PermissionsDefault] :
        data \in GetFromTeam(rows, team_id) }

\* GET {id}/members
TeamMembersGet ==
    \E caller \in Users \cup {NoUser}, team_id \in Teams :
      /\ team_last' =
           [TeamLastOf("get", NoRow, {}, "Ok", caller, team_id, "", {})
              EXCEPT !.response = TeamMembersResponse(team_members, team_id, caller)]
      /\ UNCHANGED <<team_members, NonTeamVars>>

\* the team a project creation makes: the creator alone, as Owner
TeamBuilderMembers(team_id, user_id) ==
    {[id |-> 1, team_id |-> team_id, user_id |-> user_id, role |-> OWNER_ROLE,
      permissions |-> PermissionsALL, accepted |-> TRUE]}

(***************************************************************************)
(* The version area: the files of the versions, their hashes, and          *)
(* version_edit (routes/versions.rs).                                      *)
(***************************************************************************)
VersionIds == {"vA", "vB"}

\* a version id no row has
NoVersion == "v0"

FileIds == {"f1", "f2", "f3", "f4"}

NoFile == "none"

\* the team that owns the version's project
VersionTeam(version_id) == IF version_id = "vA" THEN 1 ELSE 2

\* users whose role is Moderator or Admin
Moderators == {"m1"}

\* Role::is_mod
IsMod(user) == user \in Moderators

\* the files as their versions were created: f1, f2 belong to vA and f3, f4 to
\* vB; no file is primary (the files insert names no is_primary)
InitialFiles ==
    [f \in FileIds |->
        [version_id |-> IF f \in {"f1", "f2"} THEN "vA" ELSE "vB",
         is_primary |-> FALSE]]

\* one sha1 row per file; f1 and f4 hold the same content
InitialHashes ==
    { [file_id |-> "f1", algorithm |-> "sha1", hash |-> "h1"],
      [file_id |-> "f2", algorithm |-> "sha1", hash |-> "h2"],
      [file_id |-> "f3", algorithm |-> "sha1", hash |-> "h3"],
      [file_id |-> "f4", algorithm |-> "sha1", hash |-> "h1"] }

\* the (algorithm, hash) designators a request may name
Designators ==
    { <<"sha1", "h1">>, <<"sha1", "h2">>, <<"sha1", "h3">>,
      <<"sha1", "h9">>, <<"sha512", "h1">> }

\* TeamMember::get_from_user_id_version: the rows of the user in the team of
\* the version's project
GetFromUserIdVersion(version_id, user_id) ==
    GetFromUserId(VersionTeam(version_id), user_id)

\* the caller's permissions: the row's, else every bit for a moderator, else
\* none (the empty set is None, a singleton is Some)
ResolvePermissions(member, user) ==
    IF member # NoRow THEN {member.permissions}
    ELSE IF IsMod(user) THEN {PermissionsALL}
    ELSE {}

\* SELECT f.id FROM hashes h INNER JOIN files f ... WHERE h.algorithm = $2
\* AND h.hash = $1: the files the designator matches, in any version
FilesWithHash(primary_file) ==
    { h.file_id : h \in { x \in hashes : x.algorithm = primary_file[1]
                                           /\ x.hash = primary_file[2] } }

\* UPDATE files SET is_primary = FALSE WHERE version_id = $1, then
\* UPDATE files SET is_primary = TRUE WHERE id = $1
SetPrimary(fs, version_id, file_id) ==
    [f \in DOMAIN fs |->
        IF f = file_id THEN [fs[f] EXCEPT !.is_primary = TRUE]
        ELSE IF fs[f].version_id = version_id
             THEN [fs[f] EXCEPT !.is_primary = FALSE]
             ELSE fs[f]]

\* fetch_optional on the file ids: one of them, or none
FetchOptionalFile(ids) == IF ids = {} THEN {NoFile} ELSE ids

\* PATCH version/{id}.  fields_valid: the name, version number, version type,
\* game versions and loaders of the request pass their checks; changelog_valid:
\* so does the changelog; commit_ok: the commit succeeds.  primary_file is the
\* empty set (absent) or a singleton.
VersionEdit ==
    \E user \in Users \cup Moderators, id \in VersionIds \cup {NoVersion},
       primary_file \in {{}} \cup {{d} : d \in Designators},
       fields_valid \in BOOLEAN, changelog_valid \in BOOLEAN,
       commit_ok \in BOOLEAN :
      \E member \in FetchOptional(GetFromUserIdVersion(id, user)) :
        \E result_id \in IF primary_file = {} THEN {NoFile}
                         ELSE FetchOptionalFile(UNION {FilesWithHash(d) : d \in primary_file}) :
          LET permissions == ResolvePermissions(member, user)
              answer ==
                IF id \notin VersionIds THEN "NotFound"
                ELSE IF permissions = {}
                     THEN "CustomAuthenticationError"
                ELSE IF \E perms \in permissions : ~Contains(perms, {UPLOAD_VERSION})
                     THEN "CustomAuthenticationError"
                ELSE IF ~fields_valid THEN "InvalidInputError"
                ELSE IF primary_file # {} /\ result_id = NoFile
                     THEN "InvalidInputError"
                ELSE IF ~changelog_valid THEN "InvalidInputError"
                ELSE IF ~commit_ok THEN "DatabaseError"
                ELSE "NoContent"
          IN  /\ files' = IF answer = "NoContent" /\ primary_file # {}
                          THEN SetPrimary(files, id, result_id)
                          ELSE files
              /\ version_last' = [op |-> "version_edit", id |-> id,
                                  primary_file |-> primary_file, answer |-> answer]
              /\ UNCHANGED <<hashes, team_members>>
              /\ UNCHANGED NonVersionVars

(***************************************************************************)
(* The project area: project_create (routes/project_creation.rs) over the  *)
(* relational store and the blob store, and the slug edit of project_edit  *)
(* (routes/projects.rs).                                                   *)
(***************************************************************************)
\* the slugs a request may name: "aaa", "Aaa", "a_a" and the too short "aa"
SlugChoices ==
    { <<"a", "a", "a">>, <<"A", "a", "a">>, <<"a", "_", "a">>, <<"a", "a">> }

\* a slug column that is NULL
NoSlug == <<>>

\* the ids generate_project_id may draw: the ids "aaa" and "Aaa" denote, and
\* two whose strings have four characters
ProjectIdChoices ==
    { ParseBase62(<<"a", "a", "a">>), ParseBase62(<<"A", "a", "a">>),
      ParseBase62(<<"1", "0", "0", "0">>), ParseBase62(<<"1", "0", "0", "1">>) }

\* the file_parts of the initial versions a request may declare
DeclaredChoices ==
    { <<>>,
      << <<"a">> >>,
      << <<"a", "b">> >>,
      << <<"a">>, <<"b">> >>,
      << <<"a">>, <<"a">> >>,
      << <<>>, <<"b">> >> }

\* the names of the multipart fields that may follow the data field
FieldNames == {"icon", "a", "b", "x"}

\* the most multipart fields after the data field
MaxFields == 3

\* the most rows of the mods table
MaxProjects == 2

\* ProjectStatus (models/projects.rs)
Statuses == {"approved", "rejected", "draft", "unlisted", "processing", "unknown"}

\* ProjectStatus::is_hidden
IsHidden(status) == status \in {"rejected", "draft", "processing", "unknown"}

\* ProjectStatus::is_searchable
IsSearchable(status) == status = "approved"

\* the columns of a mods row project_edit writes with a plain UPDATE or a
\* delete-and-insert of the joined rows
TextColumns ==
    {"title", "description", "categories", "client_side", "server_side",
     "license_id", "donation_urls", "body"}

\* the nullable url columns
UrlColumns == {"issues_url", "source_url", "wiki_url", "license_url", "discord_url"}

\* a url column that is NULL
Null == "null"

\* the names the categories table holds
CategoryNames == {"c1", "c2", "c3"}

\* Category::get_id: the id of the category with the name, if there is one
CategoryGetId(name) == IF name \in CategoryNames THEN {name} ELSE {}

\* the columns as project_create writes them: the texts of the request, which
\* names no url; the categories column is the set of the categories the
\* project's mods_categories rows name
CreatedColumns ==
    [f \in TextColumns \cup UrlColumns |->
        IF f \in UrlColumns THEN Null
        ELSE IF f = "categories" THEN {"c1"}
        ELSE "v0"]

\* the status project_create gives the project (lines 471-476)
CreatedStatus(is_draft) == IF is_draft THEN "draft" ELSE "processing"

\* ProjectCreateData's validate: the slug has 3 to 64 url-safe characters
\* (every character of the model's slugs is url-safe)
SlugValid(slug) == Len(slug) >= 3 /\ Len(slug) <= 64

\* the check without the existence query's answer: it never reports a collision
SlugCollisionNever(slug, rows) == FALSE

\* the slug is the string of the id of an existing project
\* (project_creation.rs:315-333, projects.rs:659-679)
SlugCollision(slug, rows) ==
    LET slug_project_id == ParseBase62(slug)
    IN  slug_project_id # -1 /\ \E m \in rows : m.id = slug_project_id

\* the unique constraint on mods.slug
SlugTaken(slug, rows) == slug # NoSlug /\ \E m \in rows : m.slug = slug

\* generate_project_id: the ids no row of the table has
GenerateProjectId(rows) == { i \in ProjectIdChoices : \A m \in rows : m.id # i }

\* generate_team_id: an id no team has
GenerateTeamId(members) ==
    CHOOSE t \in 1..(Cardinality(members) + 1) : \A r \in members : r.team_id # t

\* the names declared by all the versions, in order
RECURSIVE AllParts(_)
AllParts(declared) ==
    IF declared = <<>> THEN <<>> ELSE Head(declared) \o AllParts(Tail(declared))

\* versions_map.insert(name, i).is_some() for some name: a field name is
\* declared twice
DuplicateFieldName(declared) ==
    LET parts == AllParts(declared)
    IN  \E i, j \in 1..Len(parts) : i # j /\ parts[i] = parts[j]

\* versions_map.get(name): the index of the version that declares the name,
\* 0 when none does
VersionsMapGet(declared, name) ==
    IF \E i \in 1..Len(declared) : \E k \in 1..Len(declared[i]) : declared[i][k] = name
    THEN CHOOSE i \in 1..Len(declared) :
             \E k \in 1..Len(declared[i]) : declared[i][k] = name
    ELSE 0

\* the check accepting a version that holds more files than it declared
FilesMismatchShortfallOnly(declared, builder_files) ==
    \E i \in 1..Len(declared) : Len(declared[i]) > Len(builder_files[i])

\* "Some files were specified in initial_versions but not uploaded": a version
\* holds a number of files other than the number of its file_parts
FilesMismatch(declared, builder_files) ==
    \E i \in 1..Len(declared) : Len(declared[i]) # Len(builder_files[i])

\* the rows a transaction has written and not yet committed
NoTx == [mods |-> {}, versions |-> {}, team_members |-> {}]

CreateIdle ==
    [pc |-> "idle", user |-> NoUser, project_id |-> 0, slug |-> NoSlug,
     declared |-> <<>>, builder_files |-> <<>>, icon_url |-> FALSE,
     uploaded_files |-> <<>>, nfields |-> 0, data_ok |-> TRUE, is_draft |-> FALSE,
     other_failure |-> FALSE, inner |-> "", tx |-> NoTx, delete_invoked |-> {},
     rollback_invoked |-> FALSE, rollback_ok |-> TRUE, answer |-> ""]

ProjectLastNone == [op |-> "none", slug |-> NoSlug, answer |-> "", id |-> 0]

\* project_create_inner up to the end of the data field (lines 269-363).
\* data_ok: the caller is authenticated and the data field is there, parses
\* and validates apart from the slug.  names_ok: every name the data refers
\* to (loaders, game versions, project type, ...) exists.
CreateData ==
    \E user \in Users, slug \in SlugChoices, declared \in DeclaredChoices,
       data_ok \in BOOLEAN, names_ok \in BOOLEAN, is_draft \in BOOLEAN :
      \E project_id \in GenerateProjectId(mods) :
        LET inner ==
              IF ~data_ok THEN "InvalidInput"
              ELSE IF ~SlugValid(slug) THEN "ValidationError"
              ELSE IF SlugCollision(slug, mods) THEN "SlugCollision"
              ELSE IF DuplicateFieldName(declared) THEN "InvalidInput"
              ELSE IF ~names_ok THEN "InvalidInput"
              ELSE ""
        IN  /\ create.pc = "start"
            /\ create' = [create EXCEPT
                   !.pc = IF inner = "" THEN "fields" ELSE "failed",
                   !.user = user,
                   !.project_id = project_id,
                   !.slug = slug,
                   !.declared = declared,
                   !.builder_files = [i \in 1..Len(declared) |-> <<>>],
                   !.data_ok = data_ok,
                   !.is_draft = is_draft,
                   !.other_failure = inner # "",
                   !.inner = inner]
            /\ UNCHANGED <<mods, versions, blobs, project_last, team_members>>
            /\ UNCHANGED NonProjectVars

\* an id no blob of the store has: upload_file's file_id
NewBlobId == Cardinality(blobs) + 1

\* one turn of the loop over the multipart fields (lines 367-431).  outcome:
\* "ok", "invalid" (the field cannot be read, an icon of a wrong format or of
\* 256 KiB or more, a file of a wrong type) or "upload_failed" (the blob store
\* refuses the upload).
CreateField ==
    \E name \in FieldNames, outcome \in {"ok", "invalid", "upload_failed"} :
      LET index == VersionsMapGet(create.declared, name)
          inner ==
            IF name = "icon"
            THEN IF create.icon_url THEN "InvalidInput"
                 ELSE IF outcome = "invalid" THEN "InvalidIconFormat"
                 ELSE IF outcome = "upload_failed" THEN "FileHostingError"
                 ELSE ""
            ELSE IF index = 0 THEN "InvalidInput"
                 ELSE IF outcome = "invalid" THEN "InvalidFileType"
                 ELSE IF outcome = "upload_failed" THEN "FileHostingError"
                 ELSE ""
      IN  /\ create.pc = "fields"
          /\ create.nfields < MaxFields
          /\ create' = [create EXCEPT
                 !.pc = IF inner = "" THEN "fields" ELSE "failed",
                 !.nfields = @ + 1,
                 !.icon_url = IF inner = "" /\ name = "icon" THEN TRUE ELSE @,
                 !.builder_files =
                     IF inner = "" /\ name # "icon"
                     THEN [@ EXCEPT ![index] = Append(@, name)]
                     ELSE @,
                 !.uploaded_files = IF inner = "" THEN Append(@, NewBlobId) ELSE @,
                 !.other_failure = inner # "",
                 !.inner = inner]
          /\ blobs' = IF inner = "" THEN blobs \cup {NewBlobId} ELSE blobs
          /\ UNCHANGED <<mods, versions, project_last, team_members>>
          /\ UNCHANGED NonProjectVars

\* the rows of a builder whose team member awaits acceptance
ProjectBuilderRowsPending(c, team_id) ==
    [mods |-> {[id |-> c.project_id, slug |-> c.slug, team_id |-> team_id,
                status |-> CreatedStatus(c.is_draft), columns |-> CreatedColumns]},
     versions |-> { [project_id |-> c.project_id, index |-> i,
                     files |-> c.builder_files[i]] : i \in 1..Len(c.declared) },
     team_members |->
        {[id |-> GenerateTeamMemberId, team_id |-> team_id, user_id |-> c.user,
          role |-> OWNER_ROLE, permissions |-> PermissionsALL, accepted |-> FALSE]}]

\* ProjectBuilder::insert with its versions: the rows it writes
ProjectBuilderRows(c, team_id) ==
    [mods |-> {[id |-> c.project_id, slug |-> c.slug, team_id |-> team_id,
                status |-> CreatedStatus(c.is_draft), columns |-> CreatedColumns]},
     versions |-> { [project_id |-> c.project_id, index |-> i,
                     files |-> c.builder_files[i]] : i \in 1..Len(c.declared) },
     team_members |->
        {[id |-> GenerateTeamMemberId, team_id |-> team_id, user_id |-> c.user,
          role |-> OWNER_ROLE, permissions |-> PermissionsALL, accepted |-> TRUE]}]

\* the end of project_create_inner, once the payload is exhausted (lines
\* 433-603).  lookups_ok: the categories, status, side types, license and
\* donation platforms exist; insert_ok: the store accepts the inserts.
CreateFinish ==
    \E lookups_ok \in BOOLEAN, insert_ok \in BOOLEAN :
      LET team_id == GenerateTeamId(team_members)
          inner ==
            IF FilesMismatch(create.declared, create.builder_files) THEN "InvalidInput"
            ELSE IF ~lookups_ok THEN "InvalidCategory"
            ELSE IF ~insert_ok \/ SlugTaken(create.slug, mods) THEN "DatabaseError"
            ELSE "Ok"
      IN  /\ create.pc = "fields"
          /\ create' = [create EXCEPT
                 !.pc = IF inner = "Ok" THEN "created" ELSE "failed",
                 !.other_failure =
                     ~FilesMismatch(create.declared, create.builder_files)
                         /\ inner # "Ok",
                 !.tx = IF inner = "Ok" THEN ProjectBuilderRows(create, team_id) ELSE @,
                 !.inner = inner]
          /\ indexing_queue' =
                 IF inner = "Ok" /\ IsSearchable(CreatedStatus(create.is_draft))
                 THEN Append(indexing_queue, create.project_id)
                 ELSE indexing_queue
          /\ UNCHANGED <<mods, versions, blobs, project_last, team_members>>
          /\ UNCHANGED <<activityVars, team_last, versionVars, search_index, request_last>>

\* undo_uploads (lines 180-190): the deletions are invoked in order and the
\* first one that fails ends the loop.  failing is the index of the deletion
\* that fails, 0 when none does.
UndoUploadsInvoked(uploaded_files, failing) ==
    { uploaded_files[i] : i \in { k \in 1..Len(uploaded_files) :
                                    failing = 0 \/ k <= failing } }

UndoUploadsDeleted(uploaded_files, failing) ==
    UndoUploadsInvoked(uploaded_files, failing)
        \ (IF failing = 0 THEN {} ELSE {uploaded_files[failing]})

\* project_create after project_create_inner failed (lines 213-222)
CreateFailed ==
    \E failing \in 0..Len(create.uploaded_files), rollback_ok \in BOOLEAN :
      /\ create.pc = "failed"
      /\ blobs' = blobs \ UndoUploadsDeleted(create.uploaded_files, failing)
      /\ create' = [create EXCEPT
             !.pc = "done",
             !.delete_invoked = UndoUploadsInvoked(create.uploaded_files, failing),
             !.rollback_invoked = TRUE,
             !.rollback_ok = rollback_ok,
             !.tx = NoTx,
             !.answer = IF failing # 0 THEN "FileHostingError"
                        ELSE IF ~rollback_ok THEN "SqlxDatabaseError"
                        ELSE create.inner]
      /\ project_last' = [op |-> "project_create", slug |-> create.slug,
                          answer |-> create'.answer, id |-> create.project_id]
      /\ UNCHANGED <<mods, versions, team_members>>
      /\ UNCHANGED NonProjectVars

\* project_create after project_create_inner succeeded (lines 223-227)
CreateCommit ==
    \E commit_ok \in BOOLEAN :
      /\ create.pc = "created"
      /\ mods' = IF commit_ok THEN mods \cup create.tx.mods ELSE mods
      /\ versions' = IF commit_ok THEN versions \cup create.tx.versions ELSE versions
      /\ team_members' = IF commit_ok THEN team_members \cup create.tx.team_members
                         ELSE team_members
      /\ create' = [create EXCEPT
             !.pc = "done",
             !.tx = NoTx,
             !.other_failure = ~commit_ok,
             !.answer = IF commit_ok THEN "Ok" ELSE "SqlxDatabaseError"]
      /\ project_last' = [op |-> "project_create", slug |-> create.slug,
                          answer |-> create'.answer, id |-> create.project_id]
      /\ UNCHANGED blobs
      /\ UNCHANGED NonProjectVars

\* a whole project_create request that declares no initial version, sends no
\* file and is no draft: project_create_inner and the commit, in one
\* transaction.
\* store_ok: the store accepts the inserts and the commit.
ProjectCreateNoFiles ==
    \E user \in Users, slug \in SlugChoices, store_ok \in BOOLEAN :
      \E project_id \in GenerateProjectId(mods) :
        LET c == [CreateIdle EXCEPT !.user = user, !.project_id = project_id,
                                    !.slug = slug]
            rows == ProjectBuilderRows(c, GenerateTeamId(team_members))
            answer ==
              IF ~SlugValid(slug) THEN "ValidationError"
              ELSE IF SlugCollision(slug, mods) THEN "SlugCollision"
              ELSE IF ~store_ok \/ SlugTaken(slug, mods) THEN "DatabaseError"
              ELSE "Ok"
        IN  /\ Cardinality(mods) < MaxProjects
            /\ mods' = IF answer = "Ok" THEN mods \cup rows.mods ELSE mods
            /\ team_members' = IF answer = "Ok"
                               THEN team_members \cup rows.team_members
                               ELSE team_members
            /\ project_last' = [op |-> "project_create", slug |-> slug,
                                answer |-> answer, id |-> project_id]
            /\ UNCHANGED <<versions, blobs, create>>
            /\ UNCHANGED NonProjectVars

\* the slug as project_edit stores it: SET slug = LOWER($1)
StoredSlug(slug) == Lower(slug)

\* PATCH project/{id} with no field but the slug (lines 291-330, 644-694,
\* 852-864).  slug is the empty set (absent) or a singleton: {NoSlug} for
\* null, else the new slug.  commit_ok: the store accepts the commit.
ProjectEdit ==
    \E user \in Users \cup Moderators, id \in ProjectIdChoices,
       slug \in {{}} \cup {{x} : x \in SlugChoices \cup {NoSlug}},
       commit_ok \in BOOLEAN :
      LET project_item == { m \in mods : m.id = id } IN
      \E member \in FetchOptional(UNION { GetFromUserId(m.team_id, user) :
                                            m \in project_item }) :
        LET permissions == ResolvePermissions(member, user)
            others == { m \in mods : m.id # id }
            answer ==
              IF project_item = {} THEN "NotFound"
              ELSE IF permissions = {} THEN "CustomAuthenticationError"
              ELSE IF slug = {} THEN
                   IF commit_ok THEN "Ok" ELSE "DatabaseError"
              ELSE IF \E perms \in permissions : ~Contains(perms, {EDIT_DETAILS})
                   THEN "CustomAuthenticationError"
              ELSE IF \E x \in slug : x # NoSlug /\ (Len(x) > 64 \/ Len(x) < 3)
                   THEN "InvalidInputError"
              ELSE IF \E x \in slug : x # NoSlug /\ SlugCollision(x, mods)
                   THEN "InvalidInputError"
              ELSE IF \E x \in slug : SlugTaken(StoredSlug(x), others)
                   THEN "DatabaseError"
              ELSE IF commit_ok THEN "Ok" ELSE "DatabaseError"
        IN  /\ mods' = IF answer = "Ok" /\ slug # {}
                       THEN { IF m.id = id
                              THEN [m EXCEPT !.slug = StoredSlug(CHOOSE x \in slug : TRUE)]
                              ELSE m : m \in mods }
                       ELSE mods
            /\ project_last' = [op |-> "project_edit",
                                slug |-> IF slug = {} THEN NoSlug
                                         ELSE CHOOSE x \in slug : TRUE,
                                answer |-> answer, id |-> id]
            /\ UNCHANGED <<versions, blobs, create, team_members>>
            /\ UNCHANGED NonProjectVars

(***************************************************************************)
(* project_edit (routes/projects.rs), every field of the request, with the *)
(* search index and the indexing queue it touches.                         *)
(***************************************************************************)
\* the fields of EditProject, in the order project_edit goes through them
EditOrder ==
    <<"title", "description", "status", "categories", "issues_url", "source_url",
      "wiki_url", "license_url", "discord_url", "slug", "client_side",
      "server_side", "license_id", "donation_urls", "body">>

EditFieldNames == { EditOrder[i] : i \in 1..Len(EditOrder) }

\* a value that fails the field's check: a text of the wrong length, a name
\* the store has no entry for
Bad == "bad"

\* the values a request may give a field.  A field of the request is the empty
\* set when it is absent and a singleton when it is present; a url or a slug
\* that is present may be null; the categories are a list of names.
FieldValues(f) ==
    IF f = "slug" THEN SlugChoices \cup {NoSlug}
    ELSE IF f = "status" THEN Statuses
    ELSE IF f = "categories" THEN {<<"c2">>, <<Bad>>}
    ELSE IF f \in UrlColumns THEN {Null, "v1", Bad}
    ELSE {"v1", Bad}

\* the request with every field absent
EditNone == [f \in EditFieldNames |-> {}]

\* EDIT_DETAILS asked for every field
RequiredBitDetails(f) == EDIT_DETAILS

\* the bit project_edit asks for before it writes the field
RequiredBit(f) == IF f = "body" THEN EDIT_BODY ELSE EDIT_DETAILS

\* the fields whose unknown name panics on expect instead of answering
ExpectFields == {"client_side", "server_side", "license_id"}

\* the statuses only a moderator may set (lines 396-402)
ModStatuses == {"rejected", "approved"}

\* What follows works on st, [answer, row, deletes, upserts]: the answer is ""
\* while no check has failed, row is the project's row inside the
\* transaction, deletes and upserts are the ids delete_from_index was called
\* for and the ids put on the indexing queue.  project_item is the row read
\* before the transaction, rows the mods table, index_ok whether the search
\* index answers the delete.

\* the status field that leaves the index alone
EditStatusNoIndex(v, st, user, project_item, index_ok) ==
    IF v \in ModStatuses /\ ~IsMod(user)
    THEN [st EXCEPT !.answer = "CustomAuthenticationError"]
    ELSE IF v = "unknown" THEN [st EXCEPT !.answer = "InvalidInputError"]
    ELSE [st EXCEPT !.row.status = v]

\* the status field that lets every caller with EDIT_DETAILS set any status
EditStatusAnyCaller(v, st, user, project_item, index_ok) ==
    IF v = "unknown" THEN [st EXCEPT !.answer = "InvalidInputError"]
    ELSE IF IsSearchable(project_item.status) /\ ~IsSearchable(v)
    THEN IF index_ok
         THEN [st EXCEPT !.row.status = v, !.deletes = Append(@, project_item.id)]
         ELSE [st EXCEPT !.answer = "IndexingError"]
    ELSE IF ~IsSearchable(project_item.status) /\ IsSearchable(v)
    THEN [st EXCEPT !.row.status = v, !.upserts = Append(@, project_item.id)]
    ELSE [st EXCEPT !.row.status = v]

\* the status field, once the caller holds EDIT_DETAILS (lines 396-435)
EditStatus(v, st, user, project_item, index_ok) ==
    IF v \in ModStatuses /\ ~IsMod(user)
    THEN [st EXCEPT !.answer = "CustomAuthenticationError"]
    ELSE IF v = "unknown" THEN [st EXCEPT !.answer = "InvalidInputError"]
    ELSE IF IsSearchable(project_item.status) /\ ~IsSearchable(v)
    THEN IF index_ok
         THEN [st EXCEPT !.row.status = v, !.deletes = Append(@, project_item.id)]
         ELSE [st EXCEPT !.answer = "IndexingError"]
    ELSE IF ~IsSearchable(project_item.status) /\ IsSearchable(v)
    THEN [st EXCEPT !.row.status = v, !.upserts = Append(@, project_item.id)]
    ELSE [st EXCEPT !.row.status = v]

\* the slug field without the query for a project with the slug's id
EditSlugNoIdCheck(v, st, project_item, rows) ==
    IF v # NoSlug /\ (Len(v) > 64 \/ Len(v) < 3)
    THEN [st EXCEPT !.answer = "InvalidInputError"]
    ELSE IF SlugTaken(Lower(v), { m \in rows : m.id # project_item.id })
    THEN [st EXCEPT !.answer = "DatabaseError"]
    ELSE [st EXCEPT !.row.slug = Lower(v)]

\* the slug field, once the caller holds EDIT_DETAILS (lines 652-693)
EditSlug(v, st, project_item, rows) ==
    IF v # NoSlug /\ (Len(v) > 64 \/ Len(v) < 3)
    THEN [st EXCEPT !.answer = "InvalidInputError"]
    ELSE IF v # NoSlug /\ SlugCollision(v, rows)
    THEN [st EXCEPT !.answer = "InvalidInputError"]
    ELSE IF SlugTaken(Lower(v), { m \in rows : m.id # project_item.id })
    THEN [st EXCEPT !.answer = "DatabaseError"]
    ELSE [st EXCEPT !.row.slug = Lower(v)]

\* a column written only when the request gives it a value
EditColumnKeepsOnNull(f, v, st) ==
    IF v = Bad
    THEN [st EXCEPT !.answer = IF f \in ExpectFields THEN "Panic"
                               ELSE "InvalidInputError"]
    ELSE IF v = Null THEN st
    ELSE [st EXCEPT !.row.columns[f] = v]

\* any other field, once the caller holds its bit: the check of the value and
\* the UPDATE (for a url, lines 498-518)
EditColumn(f, v, st) ==
    IF v = Bad
    THEN [st EXCEPT !.answer = IF f \in ExpectFields THEN "Panic"
                               ELSE "InvalidInputError"]
    ELSE [st EXCEPT !.row.columns[f] = v]

\* the loop over the categories (lines 463-487): a name the store does not
\* hold ends the request, any other adds its mods_categories row.  A name
\* the list holds twice adds its row once; were the pair a key of the table,
\* the second INSERT would end the request with a DatabaseError, as a failed
\* commit does.
RECURSIVE InsertCategories(_, _)
InsertCategories(categories, st) ==
    IF categories = <<>> THEN st
    ELSE IF CategoryGetId(Head(categories)) = {}
    THEN [st EXCEPT !.answer = "InvalidInputError"]
    ELSE InsertCategories(
             Tail(categories),
             [st EXCEPT !.row.columns["categories"] =
                            @ \cup CategoryGetId(Head(categories))])

\* the categories field without the DELETE of the rows the project has
EditCategoriesKeepsRows(categories, st) ==
    IF Len(categories) > 3
    THEN [st EXCEPT !.answer = "InvalidInputError"]
    ELSE InsertCategories(categories, st)

\* the categories field, once the caller holds EDIT_DETAILS (lines 446-487):
\* the check of the length, the DELETE of the project's rows and the loop
EditCategories(categories, st) ==
    IF Len(categories) > 3
    THEN [st EXCEPT !.answer = "InvalidInputError"]
    ELSE InsertCategories(categories, [st EXCEPT !.row.columns["categories"] = {}])

\* one field of the request
EditField(f, st, new_project, perms, user, project_item, rows, index_ok) ==
    IF st.answer # "" \/ new_project[f] = {} THEN st
    ELSE
      LET v == CHOOSE x \in new_project[f] : TRUE IN
      IF ~Contains(perms, {RequiredBit(f)})
      THEN [st EXCEPT !.answer = "CustomAuthenticationError"]
      ELSE IF f = "status" THEN EditStatus(v, st, user, project_item, index_ok)
      ELSE IF f = "slug" THEN EditSlug(v, st, project_item, rows)
      ELSE IF f = "categories" THEN EditCategories(v, st)
      ELSE EditColumn(f, v, st)

\* the fields from the i-th on
RECURSIVE EditFieldsFrom(_, _, _, _, _, _, _, _)
EditFieldsFrom(i, st, new_project, perms, user, project_item, rows, index_ok) ==
    IF i > Len(EditOrder) THEN st
    ELSE EditFieldsFrom(i + 1,
             EditField(EditOrder[i], st, new_project, perms, user, project_item,
                       rows, index_ok),
             new_project, perms, user, project_item, rows, index_ok)

\* project_edit (lines 291-865).  project_item is what get_full found (the
\* empty set or a singleton), member the caller's team_members row or NoRow.
\* The result is the answer, the permissions the handler worked with, the
\* project's row as the request leaves it (the empty set when there is no
\* row), and the calls on the search index and the indexing queue.
ProjectEditResult(project_item, member, user, new_project, rows, commit_ok, index_ok) ==
    LET none == [answer |-> "", permissions |-> {}, row |-> project_item,
                 deletes |-> <<>>, upserts |-> <<>>]
    IN  IF user = NoUser THEN [none EXCEPT !.answer = "AuthenticationError"]
        ELSE IF project_item = {} THEN [none EXCEPT !.answer = "NotFound"]
        ELSE
          LET permissions == ResolvePermissions(member, user)
              item == CHOOSE m \in project_item : TRUE
          IN  IF permissions = {}
              THEN [none EXCEPT !.answer = "CustomAuthenticationError"]
              ELSE
                LET perms == CHOOSE p \in permissions : TRUE
                    st == EditFieldsFrom(1,
                              [answer |-> "", row |-> item, deletes |-> <<>>,
                               upserts |-> <<>>],
                              new_project, perms, user, item, rows, index_ok)
                    answer == IF st.answer # "" THEN st.answer
                              ELSE IF commit_ok THEN "Ok" ELSE "DatabaseError"
                IN  [answer |-> answer, permissions |-> permissions,
                     row |-> IF answer = "Ok" THEN {st.row} ELSE project_item,
                     deletes |-> st.deletes, upserts |-> st.upserts]

\* the most ids waiting on the indexing queue
MaxQueue == 2

\* the documents the deletes leave in the index
DeleteFromIndex(index, deletes) ==
    index \ { deletes[i] : i \in 1..Len(deletes) }

\* one project_edit request out of the given ones, for one of the given ids
ProjectEditWith(ids, requests) ==
    \E user \in Users \cup Moderators \cup {NoUser}, id \in ids,
       new_project \in requests, commit_ok \in BOOLEAN, index_ok \in BOOLEAN :
      LET project_item == { m \in mods : m.id = id } IN
      \E member \in FetchOptional(UNION { GetFromUserId(m.team_id, user) :
                                            m \in project_item }) :
        \E result \in {ProjectEditResult(project_item, member, user, new_project,
                                         mods, commit_ok, index_ok)} :
            /\ Len(indexing_queue) + Len(result.upserts) <= MaxQueue
            /\ mods' = { m \in mods : m.id # id } \cup result.row
            /\ search_index' = DeleteFromIndex(search_index, result.deletes)
            /\ indexing_queue' = indexing_queue \o result.upserts
            /\ request_last' =
                   [op |-> "project_edit", user |-> user, id |-> id,
                    new_project |-> new_project, answer |-> result.answer,
                    permissions |-> result.permissions, member |-> member,
                    before |-> project_item,
                    all_ok |-> request_last.all_ok /\ result.answer = "Ok",
                    deletes |-> result.deletes, upserts |-> result.upserts]
            /\ UNCHANGED <<versions, blobs, create, project_last, team_members>>
            /\ UNCHANGED <<activityVars, team_last, versionVars>>

\* the requests that name no field, one field, or one field and the title or
\* the body
EditRequests ==
    UNION { { [h \in EditFieldNames |->
                 IF h = f THEN {v} ELSE IF h = g THEN {w} ELSE {}] :
              v \in FieldValues(f), w \in FieldValues(g) } :
            f \in EditFieldNames, g \in {"title", "body"} } \cup {EditNone}

MaxCategoryList == 4

\* the lists of names a request may give as its categories: names the store
\* holds and one it does not
CategoryLists ==
    UNION { [1..n -> CategoryNames \cup {Bad}] : n \in 0..MaxCategoryList }

\* the requests that name the categories, alone or with the title
CategoryRequests ==
    { [h \in EditFieldNames |->
         IF h = "categories" THEN {categories}
         ELSE IF h = "title" THEN title ELSE {}] :
      categories \in CategoryLists, title \in {{}, {"v1"}, {Bad}} }

\* the first project_edit request against the store
ProjectEditFields ==
    /\ request_last.op = "none"
    /\ ProjectEditWith(ProjectIdChoices, EditRequests)

\* the requests that name the status alone
StatusRequests ==
    { [EditNone EXCEPT !["status"] = {v}] : v \in Statuses }

\* the ids the requests on the index name: two ids generate_project_id may draw
IndexIds == {ParseBase62(<<"a", "a", "a">>), ParseBase62(<<"1", "0", "0", "0">>)}

\* the slugs the project_create requests on the index name: "a_a" and the too
\* short "aa"
IndexSlugs == { <<"a", "_", "a">>, <<"a", "a">> }

\* a project_edit request that names the status alone
ProjectEditStatus == ProjectEditWith(IndexIds, StatusRequests)

\* a whole project_create request that declares no initial version and sends
\* no file, with what it puts on the indexing queue (lines 192-228, 471-476,
\* 591-600).  store_ok: the store accepts the inserts and the commit.
ProjectCreateRequest ==
    \E user \in {"u1"}, slug \in IndexSlugs, is_draft \in BOOLEAN,
       store_ok \in BOOLEAN :
      \E project_id \in GenerateProjectId(mods) \cap IndexIds :
        LET c == [CreateIdle EXCEPT !.user = user, !.project_id = project_id,
                                    !.slug = slug, !.is_draft = is_draft]
            rows == ProjectBuilderRows(c, GenerateTeamId(team_members))
            inner ==
              IF ~SlugValid(slug) THEN "ValidationError"
              ELSE IF SlugCollision(slug, mods) THEN "SlugCollision"
              ELSE IF SlugTaken(slug, mods) THEN "DatabaseError"
              ELSE "Ok"
            upserts == IF inner = "Ok" /\ IsSearchable(CreatedStatus(is_draft))
                       THEN <<project_id>> ELSE <<>>
            answer == IF inner # "Ok" THEN inner
                      ELSE IF store_ok THEN "Ok" ELSE "DatabaseError"
        IN  /\ Cardinality(mods) < MaxProjects
            /\ Len(indexing_queue) + Len(upserts) <= MaxQueue
            /\ mods' = IF answer = "Ok" THEN mods \cup rows.mods ELSE mods
            /\ team_members' = IF answer = "Ok"
                               THEN team_members \cup rows.team_members
                               ELSE team_members
            /\ indexing_queue' = indexing_queue \o upserts
            /\ request_last' =
                   [op |-> "project_create", user |-> user, id |-> project_id,
                    answer |-> answer,
                    all_ok |-> request_last.all_ok /\ answer = "Ok"]
            /\ UNCHANGED <<versions, blobs, create, project_last, search_index>>
            /\ UNCHANGED <<activityVars, team_last, versionVars>>

\* Project::remove_full: the project's row goes, with its versions and its team
RemoveFull(id) ==
    /\ mods' = { m \in mods : m.id # id }
    /\ versions' = { v \in versions : v.project_id # id }
    /\ team_members' = { t \in team_members :
                            \A m \in mods : m.id = id => t.team_id # m.team_id }

\* project_delete's answer (lines 970-1004).  store_ok: remove_full succeeds;
\* index_ok: so does delete_from_index.
ProjectDeleteResult(project_item, member, user, store_ok, index_ok) ==
    IF user = NoUser THEN "AuthenticationError"
    ELSE IF ~IsMod(user) /\ member = NoRow THEN "InvalidInputError"
    ELSE IF ~IsMod(user) /\ ~Contains(member.permissions, {DELETE_PROJECT})
         THEN "CustomAuthenticationError"
    ELSE IF ~store_ok THEN "DatabaseError"
    ELSE IF ~index_ok THEN "IndexingError"
    ELSE IF project_item # {} THEN "Ok"
    ELSE "NotFound"

\* DELETE project/{id}
ProjectDelete ==
    \E user \in Users \cup Moderators \cup {NoUser}, id \in IndexIds,
       store_ok \in BOOLEAN, index_ok \in BOOLEAN :
      LET project_item == { m \in mods : m.id = id } IN
      \E member \in FetchOptional(UNION { GetFromUserId(m.team_id, user) :
                                            m \in project_item }) :
        LET answer == ProjectDeleteResult(project_item, member, user, store_ok,
                                          index_ok)
        IN  /\ IF answer \in {"IndexingError", "Ok", "NotFound"}
               THEN RemoveFull(id)
               ELSE UNCHANGED <<mods, versions, team_members>>
            /\ search_index' = IF answer \in {"Ok", "NotFound"}
                               THEN DeleteFromIndex(search_index, <<id>>)
                               ELSE search_index
            /\ request_last' =
                   [op |-> "project_delete", user |-> user, id |-> id,
                    answer |-> answer, member |-> member, before |-> project_item,
                    all_ok |-> request_last.all_ok /\ answer = "Ok"]
            /\ UNCHANGED <<blobs, create, project_last, indexing_queue>>
            /\ UNCHANGED <<activityVars, team_last, versionVars>>

\* the indexing task takes what is on the queue and adds a document for each id
IndexQueueDrain ==
    /\ indexing_queue # <<>>
    /\ search_index' = search_index \cup
                          { indexing_queue[i] : i \in 1..Len(indexing_queue) }
    /\ indexing_queue' = <<>>
    /\ UNCHANGED request_last
    /\ UNCHANGED <<teamVars, versionVars, projectVars, activityVars>>

(***************************************************************************)
(* The read endpoints of projects and versions (routes/projects.rs,        *)
(* routes/versions.rs).                                                    *)
(***************************************************************************)
\* the strings a request may give in the path: slugs and strings of ids
ReadStrings == SlugChoices \cup {ToBase62(ParseBase62(<<"1", "0", "0", "0">>))}

\* Project::get_full: the row with the id (the empty set when the string is
\* no id or no row has it)
GetFull(id) == { m \in mods : m.id = id }

\* Project::get_full_from_slug: slugs are matched without regard to case
GetFullFromSlug(string) ==
    { m \in mods : m.slug # NoSlug /\ Lower(m.slug) = Lower(string) }

\* the lookup of project_get (lines 138-157): by id when the string parses as
\* one and a row has it, else by slug
GetFullByIdOrSlug(string) ==
    IF ParseBase62(string) # -1 /\ GetFull(ParseBase62(string)) # {}
    THEN GetFull(ParseBase62(string))
    ELSE GetFullFromSlug(string)

\* every caller may see every project
AuthorizedNoCheck(project_data, user) == TRUE

\* whether the caller may see the project (lines 162-184): it is not hidden, or
\* the caller is authenticated and is a moderator or has a row in the team
Authorized(project_data, user) ==
    \/ ~IsHidden(project_data.status)
    \/ /\ user # NoUser
       /\ \/ IsMod(user)
          \/ \E t \in team_members :
                t.team_id = project_data.team_id /\ t.user_id = user

\* what a read has to answer: the ids it returns and the status of the answer
ReadLast(op, user, found, returned, single) ==
    [op |-> op, user |-> user, found |-> found, returned |-> returned,
     answer |-> IF single /\ returned = {} THEN "NotFound" ELSE "Ok",
     all_ok |-> request_last.all_ok]

\* the same for a read of versions
VersionReadLast(op, user, found, single) ==
    [op |-> op, user |-> user, version_found |-> found,
     version_returned |-> { v.id : v \in found },
     answer |-> IF single /\ found = {} THEN "NotFound" ELSE "Ok",
     all_ok |-> request_last.all_ok]

\* a read changes nothing in the stores
ReadFrame ==
    /\ UNCHANGED <<search_index, indexing_queue>>
    /\ UNCHANGED <<teamVars, versionVars, projectVars, activityVars>>

\* GET project/{id}
ProjectGet ==
    \E user \in Users \cup Moderators \cup {NoUser}, string \in ReadStrings :
      LET project_data == GetFullByIdOrSlug(string) IN
        /\ request_last' =
              ReadLast("project_get", user, project_data,
                       { m.id : m \in { x \in project_data : Authorized(x, user) } },
                       TRUE)
        /\ ReadFrame

\* GET project/@{slug}
ProjectSlugGet ==
    \E user \in Users \cup Moderators \cup {NoUser}, string \in ReadStrings :
      LET project_data == GetFullFromSlug(string) IN
        /\ request_last' =
              ReadLast("project_slug_get", user, project_data,
                       { m.id : m \in { x \in project_data : Authorized(x, user) } },
                       TRUE)
        /\ ReadFrame

\* GET projects?ids=[...]
ProjectsGet ==
    \E user \in Users \cup Moderators \cup {NoUser}, ids \in SUBSET ProjectIdChoices :
      LET projects_data == { m \in mods : m.id \in ids } IN
        /\ request_last' =
              ReadLast("projects_get", user, projects_data,
                       { m.id : m \in { x \in projects_data : Authorized(x, user) } },
                       FALSE)
        /\ ReadFrame

\* Version::get_full: the versions rows with the id
VersionGetFull(id) == { v \in versions : v.id = id }

\* GET version/{version_id}: the handler does not look at the caller
VersionGet ==
    \E user \in Users \cup Moderators \cup {NoUser}, id \in VersionIds \cup {NoVersion} :
      /\ request_last' =
            VersionReadLast("version_get", user, VersionGetFull(id), TRUE)
      /\ ReadFrame

\* GET versions?ids=[...]
VersionsGet ==
    \E user \in Users \cup Moderators \cup {NoUser}, ids \in SUBSET VersionIds :
      LET versions_data == { v \in versions : v.id \in ids } IN
        /\ request_last' =
              VersionReadLast("versions_get", user, versions_data, FALSE)
        /\ ReadFrame

\* Loader::list and GameVersion::list_filter: the tags the tables hold
LoaderList == <<"l1", "l2">>

GameVersionList == <<"g1", "g2">>

\* joined_filters: every game version with every loader, the game versions
\* outermost
JoinedFilters ==
    [i \in 1..(Len(GameVersionList) * Len(LoaderList)) |->
        << GameVersionList[((i - 1) \div Len(LoaderList)) + 1],
           LoaderList[((i - 1) % Len(LoaderList)) + 1] >>]

\* the rows of a query in the order the database returns them (by index)
RECURSIVE RowsInOrder(_)
RowsInOrder(rows) ==
    IF rows = {} THEN <<>>
    ELSE LET first == CHOOSE r \in rows : \A x \in rows : r.index <= x.index
         IN  <<first>> \o RowsInOrder(rows \ {first})

\* sort_by(|a, b| b.date_published.cmp(&a.date_published)): a stable sort,
\* newest first.  InsertByDate puts a row behind every row that is not older.
RECURSIVE InsertByDate(_, _)
InsertByDate(x, sorted) ==
    IF sorted = <<>> THEN <<x>>
    ELSE IF Head(sorted).date_published >= x.date_published
         THEN <<Head(sorted)>> \o InsertByDate(x, Tail(sorted))
         ELSE <<x>> \o sorted

RECURSIVE SortByDateDesc(_)
SortByDateDesc(seq) ==
    IF seq = <<>> THEN <<>>
    ELSE InsertByDate(seq[Len(seq)], SortByDateDesc(SubSeq(seq, 1, Len(seq) - 1)))

\* dedup_by(|a, b| a.id == b.id): of a run of neighbours with one id the first
\* stays
RECURSIVE DedupById(_)
DedupById(seq) ==
    IF Len(seq) <= 1 THEN seq
    ELSE IF seq[1].id = seq[2].id THEN DedupById(<<seq[1]>> \o SubSeq(seq, 3, Len(seq)))
    ELSE <<seq[1]>> \o DedupById(Tail(seq))

\* iter().find(...): the first version with the game version and the loader of
\* the filter, as a list of one or none
FindVersion(seq, filter) ==
    LET Matches(v) == filter[1] \in v.game_versions /\ filter[2] \in v.loaders
        found == SelectSeq(seq, Matches)
    IN  IF found = <<>> THEN <<>> ELSE <<found[1]>>

\* the versions pushed for the filters from the i-th on
RECURSIVE AutoFeaturedFrom(_, _)
AutoFeaturedFrom(i, seq) ==
    IF i > Len(JoinedFilters) THEN <<>>
    ELSE FindVersion(seq, JoinedFilters[i]) \o AutoFeaturedFrom(i + 1, seq)

\* version_list with no fallback
VersionListNoFallback(versions_data, featured) ==
    LET Wanted(v) == \A f \in featured : f = v.featured
    IN  DedupById(SortByDateDesc(SelectSeq(versions_data, Wanted)))

\* the response of version_list (lines 46-97) for the versions the store
\* returned, in its order, and the featured filter (the empty set when the
\* request names none)
VersionListResult(versions_data, featured) ==
    LET Wanted(v) == \A f \in featured : f = v.featured
        response == SelectSeq(versions_data, Wanted)
        sorted == SortByDateDesc(versions_data)
        auto == AutoFeaturedFrom(1, sorted)
    IN  DedupById(SortByDateDesc(
            IF response = <<>> /\ sorted # <<>> /\ featured = {TRUE}
            THEN IF auto = <<>> THEN sorted ELSE auto
            ELSE response))

\* GET project/{id}/version: 404 when there is no such project, else the
\* project's versions, filtered.  The handler does not look at the caller.
VersionListWith(users, strings) ==
    \E user \in users, string \in strings, featured \in {{}, {TRUE}, {FALSE}} :
      LET result == GetFullByIdOrSlug(string)
          versions_data == { v \in versions : \E m \in result : v.project_id = m.id }
      IN  \E response \in {VersionListResult(RowsInOrder(versions_data), featured)} :
          /\ request_last' =
                [op |-> "version_list", user |-> user,
                 version_found |-> versions_data,
                 version_returned |-> { response[i].id : i \in 1..Len(response) },
                 featured |-> featured,
                 response |-> response,
                 answer |-> IF result = {} THEN "NotFound" ELSE "Ok",
                 all_ok |-> request_last.all_ok]
          /\ ReadFrame

VersionList == VersionListWith(Users \cup Moderators \cup {NoUser}, ReadStrings)

\* GET version_file/{hash}: the version of a file with the hash
GetVersionFromHash ==
    \E user \in Users \cup Moderators \cup {NoUser}, d \in Designators :
      \E file_id \in FetchOptionalFile(FilesWithHash(d) \cap DOMAIN files) :
        LET version_data ==
              IF file_id = NoFile THEN {}
              ELSE VersionGetFull(files[file_id].version_id)
        IN  /\ request_last' =
                  VersionReadLast("get_version_from_hash", user, version_data, TRUE)
            /\ ReadFrame

(***************************************************************************)
(* Deleting versions and projects (routes/versions.rs, routes/mods.rs).    *)
(***************************************************************************)
\* the bit the legacy mods routes name for deleting a project
DELETE_MOD == DELETE_PROJECT

\* the role of a user, as far as the handlers tell roles apart
RoleOf(user) == IF IsMod(user) THEN "moderator" ELSE "developer"

\* version_delete with no look at the member's bits
VersionDeleteNoBitCheck(version_item, member, user, store_ok) ==
    IF user = NoUser THEN "AuthenticationError"
    ELSE IF ~IsMod(user) /\ member = NoRow THEN "InvalidInputError"
    ELSE IF ~store_ok THEN "DatabaseError"
    ELSE IF version_item # {} THEN "NoContent"
    ELSE "NotFound"

\* version_delete's answer (lines 518-551).  store_ok: remove_full succeeds.
VersionDeleteResult(version_item, member, user, store_ok) ==
    IF user = NoUser THEN "AuthenticationError"
    ELSE IF ~IsMod(user) /\ member = NoRow THEN "InvalidInputError"
    ELSE IF ~IsMod(user) /\ ~Contains(member.permissions, {DELETE_VERSION})
         THEN "CustomAuthenticationError"
    ELSE IF ~store_ok THEN "DatabaseError"
    ELSE IF version_item # {} THEN "NoContent"
    ELSE "NotFound"

\* Version::remove_full: the version's row goes, with its files and their hashes
VersionRemoveFull(id) ==
    /\ versions' = { v \in versions : v.id # id }
    /\ files' = [f \in { x \in DOMAIN files : files[x].version_id # id } |-> files[f]]
    /\ hashes' = { h \in hashes : h.file_id \in DOMAIN files
                                    => files[h.file_id].version_id # id }

\* DELETE version/{version_id}
VersionDelete ==
    \E user \in Users \cup Moderators \cup {NoUser}, id \in VersionIds \cup {NoVersion},
       store_ok \in BOOLEAN :
      LET version_item == VersionGetFull(id) IN
      \E member \in FetchOptional(IF version_item = {} THEN {}
                                  ELSE GetFromUserIdVersion(id, user)) :
        LET answer == VersionDeleteResult(version_item, member, user, store_ok)
        IN  /\ IF answer \in {"NoContent", "NotFound"}
               THEN VersionRemoveFull(id)
               ELSE UNCHANGED <<versions, files, hashes>>
            /\ request_last' =
                   [op |-> "version_delete", user |-> user, version_id |-> id,
                    answer |-> answer, member |-> member,
                    version_before |-> version_item,
                    all_ok |-> request_last.all_ok /\ answer = "NoContent"]
            /\ UNCHANGED <<mods, blobs, create, project_last, team_members>>
            /\ UNCHANGED <<activityVars, team_last, version_last, search_index, indexing_queue>>

\* mod_delete's answer (lines 134-174).  store_ok: remove_full succeeds;
\* index_ok: so do the calls of the search index.
ModDeleteResult(mod_item, member, user, store_ok, index_ok) ==
    IF user = NoUser THEN "AuthenticationError"
    ELSE IF (RoleOf(user) # "moderator" \/ RoleOf(user) # "admin") /\ mod_item = {}
         THEN "InvalidInputError"
    ELSE IF (RoleOf(user) # "moderator" \/ RoleOf(user) # "admin") /\ member = NoRow
         THEN "InvalidInputError"
    ELSE IF /\ (RoleOf(user) # "moderator" \/ RoleOf(user) # "admin")
            /\ ~Contains(member.permissions, {DELETE_MOD}) /\ member.accepted
         THEN "AuthenticationError"
    ELSE IF ~store_ok THEN "DatabaseError"
    ELSE IF ~index_ok THEN "IndexingError"
    ELSE IF mod_item # {} THEN "Ok"
    ELSE "NotFound"

\* DELETE mod/{id}
ModDelete ==
    \E user \in Users \cup Moderators \cup {NoUser}, id \in IndexIds,
       store_ok \in BOOLEAN, index_ok \in BOOLEAN :
      LET mod_item == { m \in mods : m.id = id } IN
      \E member \in FetchOptional(UNION { GetFromUserId(m.team_id, user) :
                                            m \in mod_item }) :
        LET answer == ModDeleteResult(mod_item, member, user, store_ok, index_ok)
        IN  /\ IF answer \in {"IndexingError", "Ok", "NotFound"}
               THEN RemoveFull(id)
               ELSE UNCHANGED <<mods, versions, team_members>>
            /\ search_index' = IF answer \in {"Ok", "NotFound"}
                               THEN DeleteFromIndex(search_index, <<id>>)
                               ELSE search_index
            /\ request_last' =
                   [op |-> "mod_delete", user |-> user, id |-> id,
                    answer |-> answer, member |-> member, before |-> mod_item,
                    all_ok |-> request_last.all_ok /\ answer = "Ok"]
            /\ UNCHANGED <<blobs, create, project_last, indexing_queue>>
            /\ UNCHANGED <<activityVars, team_last, versionVars>>

(***************************************************************************)
(* Following a project (routes/projects.rs).                               *)
(***************************************************************************)
\* the highest value the model lets a follows counter take
MaxFollows == 2

\* the mod_follows row of a user and a project
FollowRow(user, id) == [follower_id |-> user, mod_id |-> id]

\* project_follow with no look at the mod_follows table
ProjectFollowAlways(project_item, following, user, update_ok, insert_ok) ==
    IF user = NoUser THEN "AuthenticationError"
    ELSE IF project_item = {} THEN "InvalidInputError"
    ELSE IF ~update_ok \/ ~insert_ok THEN "DatabaseError"
    ELSE "Ok"

\* project_follow's answer (lines 1013-1067).  following: the EXISTS query
\* found a row; update_ok, insert_ok: the UPDATE and the INSERT succeed.
ProjectFollowResult(project_item, following, user, update_ok, insert_ok) ==
    IF user = NoUser THEN "AuthenticationError"
    ELSE IF project_item = {} THEN "InvalidInputError"
    ELSE IF following THEN "AlreadyFollowing"
    ELSE IF ~update_ok \/ ~insert_ok THEN "DatabaseError"
    ELSE "Ok"

\* what the follow area records of a request: the request, its answer, the
\* tables before it and the request before it
FollowLast(op, user, id, answer) ==
    [op |-> op, user |-> user, id |-> id, answer |-> answer,
     follows_before |-> mods_follows, rows_before |-> mod_follows,
     previous |-> IF request_last.op = "none" THEN <<>>
                  ELSE <<request_last.op, request_last.user, request_last.id,
                         request_last.answer>>,
     all_ok |-> request_last.all_ok]

\* requests on the follows leave every other table alone
FollowFrame ==
    /\ UNCHANGED <<search_index, indexing_queue>>
    /\ UNCHANGED <<teamVars, versionVars, projectVars, downloadVars, notificationVars>>

\* POST project/{id}/follow.  The UPDATE and the INSERT run on the pool, each
\* on its own: a failed INSERT leaves the counter raised.
ProjectFollow ==
    \E user \in Users \cup Moderators \cup {NoUser}, id \in IndexIds,
       update_ok \in BOOLEAN, insert_ok \in BOOLEAN :
      LET project_item == { m \in mods : m.id = id }
          following == FollowRow(user, id) \in mod_follows
          answer == ProjectFollowResult(project_item, following, user, update_ok,
                                        insert_ok)
          updated == answer = "Ok" \/ (answer = "DatabaseError" /\ update_ok)
      IN  /\ updated => mods_follows[id] < MaxFollows
          /\ mods_follows' = IF updated
                             THEN [mods_follows EXCEPT ![id] = @ + 1]
                             ELSE mods_follows
          /\ mod_follows' = IF answer = "Ok"
                            THEN mod_follows \cup {FollowRow(user, id)}
                            ELSE mod_follows
          /\ request_last' = FollowLast("project_follow", user, id, answer)
          /\ FollowFrame

\* project_unfollow's answer (lines 1076-1125)
ProjectUnfollowResult(following, user, update_ok, delete_ok) ==
    IF user = NoUser THEN "AuthenticationError"
    ELSE IF ~following THEN "NotFollowing"
    ELSE IF ~update_ok \/ ~delete_ok THEN "DatabaseError"
    ELSE "Ok"

\* DELETE project/{id}/follow
ProjectUnfollow ==
    \E user \in Users \cup Moderators \cup {NoUser}, id \in IndexIds,
       update_ok \in BOOLEAN, delete_ok \in BOOLEAN :
      LET following == FollowRow(user, id) \in mod_follows
          answer == ProjectUnfollowResult(following, user, update_ok, delete_ok)
          updated == answer = "Ok" \/ (answer = "DatabaseError" /\ update_ok)
      IN  /\ updated => mods_follows[id] > -MaxFollows
          /\ mods_follows' = IF updated
                             THEN [mods_follows EXCEPT ![id] = @ - 1]
                             ELSE mods_follows
          /\ mod_follows' = IF answer = "Ok"
                            THEN mod_follows \ {FollowRow(user, id)}
                            ELSE mod_follows
          /\ request_last' = FollowLast("project_unfollow", user, id, answer)
          /\ FollowFrame

(***************************************************************************)
(* Downloading a version's file (routes/versions.rs).  Time is counted in  *)
(* ticks of ten minutes.                                                   *)
(***************************************************************************)
\* the download_version requests that may be in flight together
DownloadRequests == {1, 2}

\* the locals of a download_version request that has not started
DownloadIdle == [pc |-> "idle", identifier |-> <<>>, version_id |-> NoVersion,
                 project_id |-> 0]

\* thirty minutes, and a day, in ticks
WindowTicks == 3

DayTicks == 144

\* the most ticks the clock advances, and the most requests that are counted
MaxTicks == 2

MaxDownloads == 2

\* the addresses a request may come from; NoIp is a connection with no
\* remote address
Ips == {"ip1"}

NoIp == "none"

\* the designators the download requests name: a file of vA, a file of vB, no
\* file
DownloadDesignators == { <<"sha1", "h2">>, <<"sha1", "h3">>, <<"sha1", "h9">> }

\* the times the clock may start at: midnight, mid-morning, and twenty minutes
\* before midnight
ClockStarts == {0, 60, DayTicks - 2}

\* sha1(ip + pepper).hexdigest(): one identifier per address
Identifier(ip) == <<"sha1", ip>>

\* CURRENT_DATE: the midnight before the clock
CurrentDate == clock - (clock % DayTicks)

\* the EXISTS query of line 640: date > (CURRENT_DATE - INTERVAL '30 minutes
\* ago').  The interval '30 minutes ago' is minus thirty minutes, and a date
\* minus an interval is a timestamp: the bound is thirty minutes past the last
\* midnight.
DownloadExists(version_id, identifier) ==
    \E i \in 1..Len(downloads) :
        /\ downloads[i].version_id = version_id
        /\ downloads[i].identifier = identifier
        /\ downloads[i].date > CurrentDate + WindowTicks

\* the rows of the first query (lines 619-630): the files with the hash, joined
\* with their versions
DownloadLookup(d) ==
    { [version_id |-> v.id, project_id |-> v.project_id] :
        v \in { x \in versions :
                  \E f \in FilesWithHash(d) \cap DOMAIN files :
                      files[f].version_id = x.id } }

\* a step of a download leaves the other tables alone
DownloadFrame ==
    /\ UNCHANGED <<search_index, indexing_queue>>
    /\ UNCHANGED <<teamVars, versionVars, projectVars, followVars, notificationVars>>

\* the request arrives and looks the file up: no file answers NotFound, a
\* connection with no remote address is redirected at once (lines 617-636)
DownloadStart(r) ==
    /\ download[r].pc = "idle"
    /\ \E d \in DownloadDesignators, ip \in Ips \cup {NoIp} :
         LET result == DownloadLookup(d) IN
         IF result = {} \/ ip = NoIp
         THEN UNCHANGED download
         ELSE \E id \in result :
                download' = [download EXCEPT ![r] =
                                [pc |-> "exists", identifier |-> Identifier(ip),
                                 version_id |-> id.version_id,
                                 project_id |-> id.project_id]]
    /\ UNCHANGED <<downloads, versions_downloads, mods_downloads, clock, request_last>>
    /\ DownloadFrame

\* the EXISTS query (lines 639-649): a download that exists ends the request
\* with the redirect
DownloadCheck(r) ==
    /\ download[r].pc = "exists"
    /\ download' = [download EXCEPT ![r] =
                         IF ~DownloadExists(download[r].version_id,
                                                        download[r].identifier)
                         THEN [download[r] EXCEPT !.pc = "insert"]
                         ELSE DownloadIdle]
    /\ UNCHANGED <<downloads, versions_downloads, mods_downloads, clock, request_last>>
    /\ DownloadFrame

\* INSERT INTO downloads (lines 650-663); the date of the row is the time of
\* the insert
DownloadInsert(r) ==
    /\ download[r].pc = "insert"
    /\ Len(downloads) < MaxDownloads
    /\ \E insert_ok \in BOOLEAN :
         IF insert_ok
         THEN /\ downloads' = Append(downloads,
                                 [version_id |-> download[r].version_id,
                                  identifier |-> download[r].identifier,
                                  date |-> clock])
              /\ download' = [download EXCEPT ![r].pc = "update_version"]
         ELSE /\ downloads' = downloads
              /\ download' = [download EXCEPT ![r] = DownloadIdle]
    /\ UNCHANGED <<versions_downloads, mods_downloads, clock, request_last>>
    /\ DownloadFrame

\* UPDATE versions SET downloads = downloads + 1 (lines 665-674)
DownloadUpdateVersion(r) ==
    /\ download[r].pc = "update_version"
    /\ \E update_ok \in BOOLEAN :
         IF update_ok
         THEN /\ versions_downloads' =
                    [versions_downloads EXCEPT ![download[r].version_id] = @ + 1]
              /\ request_last' =
                    [op |-> "download_version",
                     counted |-> Append(IF request_last.op = "none" THEN <<>>
                                        ELSE request_last.counted,
                                        [version_id |-> download[r].version_id,
                                         identifier |-> download[r].identifier,
                                         date |-> clock]),
                     all_ok |-> request_last.all_ok]
              /\ download' = [download EXCEPT ![r].pc = "update_mod"]
         ELSE /\ UNCHANGED <<versions_downloads, request_last>>
              /\ download' = [download EXCEPT ![r] = DownloadIdle]
    /\ UNCHANGED <<downloads, mods_downloads, clock>>
    /\ DownloadFrame

\* UPDATE mods SET downloads = downloads + 1 (lines 676-685), then the redirect
DownloadUpdateMod(r) ==
    /\ download[r].pc = "update_mod"
    /\ \E update_ok \in BOOLEAN :
         mods_downloads' = IF update_ok
                           THEN [mods_downloads EXCEPT ![download[r].project_id] = @ + 1]
                           ELSE mods_downloads
    /\ download' = [download EXCEPT ![r] = DownloadIdle]
    /\ UNCHANGED <<downloads, versions_downloads, clock, request_last>>
    /\ DownloadFrame

\* ten minutes pass
Tick ==
    /\ \E start \in ClockStarts : clock >= start /\ clock < start + MaxTicks
    /\ clock' = clock + 1
    /\ UNCHANGED <<downloads, versions_downloads, mods_downloads, download, request_last>>
    /\ DownloadFrame

(***************************************************************************)
(* The version rows and their files (database/models/version_item.rs).     *)
(* Here a files row is [version_id, url, filename] and a versions row is   *)
(* [id, mod_id].                                                           *)
(***************************************************************************)
MaxBuilderFiles == 2

\* the HashBuilder lists a file builder may hold: each algorithm at most once
HashBuilderChoices ==
    { {}, {<<"sha1", "h1">>}, {<<"sha512", "h2">>},
      {<<"sha1", "h1">>, <<"sha512", "h2">>} }

\* the VersionFileBuilder values a request may hold
VersionFileBuilders ==
    [url : {"cdn"}, filename : {"a.jar", "b.jar"}, hashes : HashBuilderChoices]

\* the files lists a VersionBuilder may hold
BuilderFileLists ==
    UNION { [1..n -> VersionFileBuilders] : n \in 0..MaxBuilderFiles }

\* VersionFileBuilder::insert (lines 23-60), run to its end: the files row
\* under file_id and one hashes row per HashBuilder
VersionFileBuilderInsert(file, file_id, version_id, store) ==
    [files |-> [f \in DOMAIN store.files \cup {file_id} |->
                   IF f = file_id
                   THEN [version_id |-> version_id, url |-> file.url,
                         filename |-> file.filename]
                   ELSE store.files[f]],
     hashes |-> store.hashes \cup
                   { [file_id |-> file_id, algorithm |-> h[1], hash |-> h[2]] :
                        h \in file.hashes }]

\* the loop over self.files of VersionBuilder::insert (lines 85-87):
\* file.insert(...) makes a future that is dropped without being awaited, so
\* none of its statements runs and the store is left as it was
VersionBuilderFiles(builder_files, version_id, store) == store

\* Version::insert (lines 144-174); the id is the primary key
VersionRowInsert(rows, version_id, mod_id) ==
    rows \cup {[id |-> version_id, mod_id |-> mod_id]}

\* the files and their hashes as the queries of get_full read them (lines
\* 284-317): one QueryFile per files row of the version, its hashes a map
\* from the algorithm to the hash
QueryFiles(id) ==
    { [id |-> f, url |-> files[f].url, filename |-> files[f].filename,
       hashes |-> { <<h.algorithm, h.hash>> :
                       h \in { x \in hashes : x.file_id = f } }] :
        f \in { g \in DOMAIN files : files[g].version_id = id } }

\* Version::get_full (lines 233-336): None when no row has the id;
\* otherwise the view, whose files field is Vec::<QueryFile>::new() (line
\* 329), not the files read above
QueryVersion(id) ==
    { [id |-> v.id, mod_id |-> v.mod_id, files |-> {}] :
        v \in { x \in versions : x.id = id } }

ItemLastNone ==
    [op |-> "none", version_id |-> NoVersion, builder_files |-> <<>>,
     built |-> {}, view |-> {}, stored |-> {}, answer |-> ""]

ItemFrame ==
    /\ UNCHANGED <<search_index, indexing_queue>>
    /\ UNCHANGED <<teamVars, version_last, mods, blobs, create, project_last,
                   activityVars>>

\* VersionBuilder::insert (lines 67-130) and the commit of its transaction.
\* store_ok: the store accepts the statements and the commit.
VersionBuilderInsert ==
    \E version_id \in VersionIds, builder_files \in BuilderFileLists,
       store_ok \in BOOLEAN :
      LET ok == store_ok /\ \A v \in versions : v.id # version_id
          store == VersionBuilderFiles(builder_files, version_id,
                                       [files |-> files, hashes |-> hashes])
      IN  /\ request_last.built = {}
          /\ versions' = IF ok THEN VersionRowInsert(versions, version_id, 1)
                         ELSE versions
          /\ files' = IF ok THEN store.files ELSE files
          /\ hashes' = IF ok THEN store.hashes ELSE hashes
          /\ request_last' =
                 [op |-> "version_builder_insert", version_id |-> version_id,
                  builder_files |-> IF ok THEN builder_files
                                    ELSE request_last.builder_files,
                  built |-> IF ok THEN {version_id} ELSE request_last.built,
                  view |-> {}, stored |-> {},
                  answer |-> IF ok THEN "Ok" ELSE "DatabaseError"]
          /\ ItemFrame

\* Version::get_full for an id
VersionItemGetFull ==
    \E id \in VersionIds \cup {NoVersion} :
      /\ request_last' =
             [request_last EXCEPT
                 !.op = "version_get_full", !.version_id = id,
                 !.view = QueryVersion(id), !.stored = QueryFiles(id),
                 !.answer = "Ok"]
      /\ UNCHANGED <<versions, files, hashes>>
      /\ ItemFrame

(***************************************************************************)
(* Notifications and their actions (database/models/notification_item.rs). *)
(* A text is a sequence of one-character strings.                          *)
(***************************************************************************)
MaxText == 2

MaxActions == 2

TextChars == {"a", ",", " "}

\* the titles and routes an action may hold: the short texts, and one text
\* with the separator ", " between two letters
TextChoices ==
    UNION { [1..n -> TextChars] : n \in 0..MaxText } \cup {<<"a", ",", " ", "a">>}

\* the actions lists a Notification may hold
ActionLists ==
    UNION { [1..n -> [title : TextChoices, action_route : TextChoices]] :
              n \in 0..MaxActions }

NotificationIds == {1, 2}

DecimalDigits == <<"0", "1", "2", "3", "4", "5", "6", "7", "8", "9">>

\* na.id as text: the decimal form of a positive id
RECURSIVE IdText(_)
IdText(i) ==
    IF i < 10 THEN <<DecimalDigits[i + 1]>>
    ELSE Append(IdText(i \div 10), DecimalDigits[(i % 10) + 1])

IsDecimalDigit(c) == \E k \in 1..10 : DecimalDigits[k] = c

RECURSIVE DecimalValue(_, _)
DecimalValue(text, acc) ==
    IF text = <<>> THEN acc
    ELSE DecimalValue(Tail(text),
                      10 * acc + (CHOOSE k \in 0..9 : DecimalDigits[k + 1] = Head(text)))

\* action[0].parse().unwrap_or(0) (line 79)
ParseIdOrZero(text) ==
    IF text # <<>> /\ \A k \in 1..Len(text) : IsDecimalDigit(text[k])
    THEN DecimalValue(text, 0)
    ELSE 0

\* str::split for a non-empty pattern: the pieces between the matches of the
\* pattern, found from the left and not overlapping; piece is the part of
\* the current piece already passed
RECURSIVE SplitFrom(_, _, _)
SplitFrom(text, pattern, piece) ==
    IF Len(text) < Len(pattern) THEN <<piece \o text>>
    ELSE IF SubSeq(text, 1, Len(pattern)) = pattern
         THEN <<piece>> \o SplitFrom(SubSeq(text, Len(pattern) + 1, Len(text)),
                                     pattern, <<>>)
         ELSE SplitFrom(Tail(text), pattern, Append(piece, Head(text)))

Split(text, pattern) == SplitFrom(text, pattern, <<>>)

\* na.id || ', ' || na.title || ', ' || na.action_route (line 56)
ActionText(row) ==
    IdText(row.id) \o <<",", " ">> \o row.title \o <<",", " ">> \o row.action_route

\* STRING_AGG(..., ' ,') over the texts in the order given
RECURSIVE StringAgg(_, _)
StringAgg(texts, delimiter) ==
    IF texts = <<>> THEN <<>>
    ELSE IF Len(texts) = 1 THEN texts[1]
    ELSE texts[1] \o delimiter \o StringAgg(Tail(texts), delimiter)

\* the orders in which an aggregate may take the values of a set
OrderingsOf(values) ==
    { q \in [1..Cardinality(values) -> values] :
        \A i, j \in 1..Cardinality(values) : i # j => q[i] # q[j] }

\* the texts the actions column of the row may hold (lines 55-60): the
\* distinct action texts of the notification, joined in some order; NULL,
\* read as the empty text by unwrap_or_default (line 71), when it has none
ActionsColumn(id) ==
    { StringAgg(q, <<" ", ",">>) :
        q \in OrderingsOf({ ActionText(row) :
                              row \in { x \in notifications_actions :
                                          x.notification_id = id } }) }

\* the closure of for_each (lines 73-86) over the pieces of the column
RECURSIVE ParsedActions(_, _)
ParsedActions(pieces, id) ==
    IF pieces = <<>> THEN <<>>
    ELSE LET action == Split(Head(pieces), <<",", " ">>)
         IN  (IF Len(action) >= 3
              THEN <<[id |-> ParseIdOrZero(action[1]), notification_id |-> id,
                      title |-> action[2], action_route |-> action[3]]>>
              ELSE <<>>)
             \o ParsedActions(Tail(pieces), id)

\* Notification::get (lines 49-100) for one text of the actions column: None
\* when no row has the id
NotificationGet(id, column) ==
    { [id |-> n.id, user_id |-> n.user_id,
       actions |-> ParsedActions(Split(column, <<" ", ",">>), id)] :
        n \in { x \in notifications : x.id = id } }

\* NotificationAction::insert (lines 223-245) for each action of the list, in
\* order; the id of a row is the next of the table's sequence
RECURSIVE ActionsInsert(_, _, _)
ActionsInsert(rows, actions, notification_id) ==
    IF actions = <<>> THEN rows
    ELSE ActionsInsert(
             rows \cup {[id |-> Cardinality(rows) + 1,
                         notification_id |-> notification_id,
                         title |-> Head(actions).title,
                         action_route |-> Head(actions).action_route]},
             Tail(actions), notification_id)

NotificationLastNone ==
    [op |-> "none", notification_id |-> 0, given |-> <<>>, inserted |-> {},
     result |-> {}, answer |-> ""]

NotificationFrame ==
    /\ UNCHANGED <<search_index, indexing_queue>>
    /\ UNCHANGED <<teamVars, versionVars, projectVars, followVars, downloadVars>>

\* Notification::insert (lines 21-47) and the commit of its transaction.
\* store_ok: the store accepts the statements and the commit.
NotificationInsert ==
    /\ notifications = {}
    /\ \E id \in NotificationIds, user \in Users, actions \in ActionLists,
          store_ok \in BOOLEAN :
      LET ok == store_ok /\ \A n \in notifications : n.id # id
      IN  /\ notifications' =
                 IF ok THEN notifications \cup {[id |-> id, user_id |-> user]}
                 ELSE notifications
          /\ notifications_actions' =
                 IF ok THEN ActionsInsert(notifications_actions, actions, id)
                 ELSE notifications_actions
          /\ request_last' =
                 [op |-> "notification_insert", notification_id |-> id,
                  given |-> IF ok THEN actions ELSE request_last.given,
                  inserted |-> IF ok THEN {id} ELSE request_last.inserted,
                  result |-> {},
                  answer |-> IF ok THEN "Ok" ELSE "DatabaseError"]
          /\ NotificationFrame

\* Notification::get for an id
NotificationGetOne ==
    \E id \in NotificationIds :
      \E column \in ActionsColumn(id) :
        /\ request_last' =
               [request_last EXCEPT
                   !.op = "notification_get", !.notification_id = id,
                   !.result = NotificationGet(id, column), !.answer = "Ok"]
        /\ UNCHANGED <<notifications, notifications_actions>>
        /\ NotificationFrame

(***************************************************************************)
(* Identifiers at their full width (models/ids.rs, models/notifications.rs).*)
(* An id of 64 bits is four limbs of 16 bits, the most significant first.  *)
(***************************************************************************)
LimbBase == 65536

MaxSmallId == 64

\* the id whose value is below 2^16
SmallId(n) == <<0, 0, 0, n>>

\* the ids of the model: the small ones, across the step from one digit to
\* two, and ids at the edges of 16, 32, 48, 63 and 64 bits
WideIds ==
    { SmallId(n) : n \in 0..MaxSmallId }
        \cup { <<0, 0, 0, 3843>>, <<0, 0, 0, 3844>>, <<0, 0, 0, 65535>>,
               <<0, 0, 1, 0>>, <<0, 0, 1, 5>>, <<0, 0, 65535, 65535>>,
               <<0, 1, 0, 0>>, <<0, 1, 0, 5>>, <<0, 65535, 65535, 65535>>,
               <<1, 0, 0, 0>>, <<1, 0, 0, 5>>, <<32767, 65535, 65535, 65535>>,
               <<32768, 0, 0, 0>>, <<65535, 65535, 65535, 65534>>,
               <<65535, 65535, 65535, 65535>> }

\* num / 62 and num % 62, limb by limb from the most significant
RECURSIVE DivMod62(_, _, _)
DivMod62(limbs, quotient, remainder) ==
    IF limbs = <<>> THEN [quotient |-> quotient, remainder |-> remainder]
    ELSE LET current == remainder * LimbBase + Head(limbs)
         IN  DivMod62(Tail(limbs), Append(quotient, current \div 62), current % 62)

\* num * 62 + digit, limb by limb from the least significant; carry is what
\* leaves the 64 bits
RECURSIVE MulAdd62(_, _, _)
MulAdd62(limbs, carry, product) ==
    IF limbs = <<>> THEN [product |-> product, carry |-> carry]
    ELSE LET current == limbs[Len(limbs)] * 62 + carry
         IN  MulAdd62(SubSeq(limbs, 1, Len(limbs) - 1), current \div LimbBase,
                      <<current % LimbBase>> \o product)

\* to_base62 on a 64-bit id
RECURSIVE ToBase62Wide(_)
ToBase62Wide(num) ==
    IF num[1] = 0 /\ num[2] = 0 /\ num[3] = 0 /\ num[4] < 62
    THEN << Base62Chars[num[4] + 1] >>
    ELSE LET step == DivMod62(num, <<>>, 0)
         IN  Append(ToBase62Wide(step.quotient), Base62Chars[step.remainder + 1])

\* parse_base62 on a 64-bit id: the id (a singleton) or no id (the empty
\* set) for a character that is no digit or a value that leaves 64 bits
RECURSIVE ParseBase62WideFrom(_, _)
ParseBase62WideFrom(string, num) ==
    IF string = <<>> THEN {num}
    ELSE IF DigitValue(Head(string)) = -1 THEN {}
    ELSE LET step == MulAdd62(num, DigitValue(Head(string)), <<>>)
         IN  IF step.carry # 0 THEN {}
             ELSE ParseBase62WideFrom(Tail(string), step.product)

ParseBase62Wide(string) ==
    IF string = <<>> THEN {} ELSE ParseBase62WideFrom(string, SmallId(0))

\* an encoding that takes the low 32 bits of the id alone
NotificationIdIntoLow32(id) == ToBase62Wide(<<0, 0, id[3], id[4]>>)

\* serde(into = "Base62Id") of NotificationId and the string of the
\* Base62Id (models/notifications.rs, lines 6-9)
NotificationIdInto(id) == ToBase62Wide(id)

\* serde(from = "Base62Id") of NotificationId
NotificationIdFrom(string) == ParseBase62Wide(string)

IdsLastNone ==
    [op |-> "none", id |-> SmallId(0), other |-> SmallId(0), encoded |-> <<>>,
     other_encoded |-> <<>>, decoded |-> {}]

IdsFrame ==
    /\ UNCHANGED <<search_index, indexing_queue>>
    /\ UNCHANGED <<teamVars, versionVars, projectVars, activityVars>>

\* two notification ids are serialized
EncodeIds ==
    /\ request_last.op = "none"
    /\ \E id \in WideIds, other \in WideIds :
      /\ request_last' =
             [op |-> "encode", id |-> id, other |-> other,
              encoded |-> NotificationIdInto(id),
              other_encoded |-> NotificationIdInto(other), decoded |-> {}]
      /\ IdsFrame

\* the string of the first is deserialized
DecodeId ==
    /\ request_last.op = "encode"
    /\ request_last' =
           [request_last EXCEPT
               !.op = "decode",
               !.decoded = NotificationIdFrom(request_last.encoded)]
    /\ IdsFrame

(***************************************************************************)
(* The icon of a project (routes/projects.rs, project_icon_edit).  Here    *)
(* the blob store is a set of [file_name, bytes], one blob per file name,  *)
(* and a mods row has the column icon_url, an option.                      *)
(***************************************************************************)
\* the extensions a request may name: two of images and one of no image
Exts == { <<"p", "n", "g">>, <<"j", "p", "g">>, <<"t", "x", "t">> }

\* get_image_content_type (project_creation.rs:710-727): an option
GetImageContentType(extension) ==
    IF extension = <<"p", "n", "g">> THEN {"image/png"}
    ELSE IF extension = <<"j", "p", "g">> THEN {"image/jpeg"}
    ELSE {}

\* CDN_URL of the environment
CdnUrl == <<"h", ":", "/", "/", "c">>

\* format!("data/{}/icon.{}", id, ext.ext)
IconFileName(id, ext) ==
    <<"d", "a", "t", "a", "/">> \o ToBase62(id)
        \o <<"/", "i", "c", "o", "n", ".">> \o ext

\* format!("{}/{}", cdn_url, upload_data.file_name)
IconUrl(file_name) == CdnUrl \o <<"/">> \o file_name

\* the first size that is too large for an icon
MaxIconBytes == 262144

\* the sizes of the payloads a request may carry
IconSizes == {MaxIconBytes - 1, MaxIconBytes}

\* the calls of a request that may fail: the deletion on the file host, the
\* read of the payload, the upload, the UPDATE
IconCalls == {"delete", "payload", "upload", "update"}

\* FileHost::upload_file: the blob of that name now holds the bytes
UploadFile(store, file_name, bytes) ==
    { b \in store : b.file_name # file_name }
        \cup {[file_name |-> file_name, bytes |-> bytes]}

\* FileHost::delete_file_version with an empty file id: the blob of that name
\* is gone
DeleteFileVersion(store, file_name) == { b \in store : b.file_name # file_name }

\* the name project_icon_edit hands to delete_file_version for the url of the
\* present icon: icon.split('/').next()
IconPath(icon) == Head(Split(icon, <<"/">>))

\* project_icon_edit (lines 872-962): the answer, the blob store and the
\* project's row as the request leaves them.  project_item is what
\* Project::get found, member the caller's row or NoRow; size: the bytes
\* read; bytes: what they are; failing: the calls that fail when the request
\* comes to them.
ProjectIconEditResult(project_item, member, user, id, ext, store, size, bytes, failing) ==
    LET none == [answer |-> "", blobs |-> store, row |-> project_item]
    IN  IF GetImageContentType(ext) = {} THEN [none EXCEPT !.answer = "InvalidInputError"]
        ELSE IF user = NoUser THEN [none EXCEPT !.answer = "AuthenticationError"]
        ELSE IF project_item = {} THEN [none EXCEPT !.answer = "InvalidInputError"]
        ELSE IF ~IsMod(user) /\ member = NoRow
        THEN [none EXCEPT !.answer = "InvalidInputError"]
        ELSE IF ~IsMod(user) /\ ~Contains(member.permissions, {EDIT_DETAILS})
        THEN [none EXCEPT !.answer = "CustomAuthenticationError"]
        ELSE
          LET item == CHOOSE m \in project_item : TRUE
              deleted == IF item.icon_url = {} THEN store
                         ELSE DeleteFileVersion(store,
                                  IconPath(CHOOSE icon \in item.icon_url : TRUE))
              uploaded == UploadFile(deleted, IconFileName(id, ext), bytes)
          IN  IF item.icon_url # {} /\ "delete" \in failing
              THEN [none EXCEPT !.answer = "FileHostingError"]
              ELSE IF "payload" \in failing
              THEN [none EXCEPT !.answer = "InvalidInputError", !.blobs = deleted]
              ELSE IF size >= MaxIconBytes
              THEN [none EXCEPT !.answer = "InvalidInputError", !.blobs = deleted]
              ELSE IF "upload" \in failing
              THEN [none EXCEPT !.answer = "FileHostingError", !.blobs = deleted]
              ELSE IF "update" \in failing
              THEN [none EXCEPT !.answer = "DatabaseError", !.blobs = uploaded]
              ELSE [answer |-> "Ok", blobs |-> uploaded,
                    row |-> {[item EXCEPT
                                !.icon_url = {IconUrl(IconFileName(id, ext))}]}]

\* PATCH project/{id}/icon for one of the given ids, with a payload of the
\* given bytes; at most one call of the request fails
ProjectIconEditWith(ids, bytes) ==
    \E user \in Users \cup Moderators \cup {NoUser}, id \in ids, ext \in Exts,
       size \in IconSizes, failing \in {{}} \cup {{c} : c \in IconCalls} :
      LET project_item == { m \in mods : m.id = id } IN
      \E member \in FetchOptional(UNION { GetFromUserId(m.team_id, user) :
                                            m \in project_item }) :
        LET result == ProjectIconEditResult(project_item, member, user, id, ext, blobs,
                                            size, bytes, failing)
        IN  /\ mods' = { m \in mods : m.id # id } \cup result.row
            /\ blobs' = result.blobs
            /\ request_last' =
                   [op |-> "project_icon_edit", id |-> id,
                    answer |-> result.answer, before |-> project_item,
                    icon_before |->
                        { b \in blobs : \E m \in project_item :
                                           IconUrl(b.file_name) \in m.icon_url },
                    all_ok |-> request_last.all_ok /\ result.answer = "Ok"]
            /\ UNCHANGED <<versions, create, project_last, team_members>>
            /\ UNCHANGED <<search_index, indexing_queue>>
            /\ UNCHANGED <<activityVars, team_last, versionVars>>

(***************************************************************************)
(* The specifications.                                                     *)
(***************************************************************************)
TeamIdle ==
    /\ team_members = {}
    /\ team_last = TeamLast("none", NoRow, {}, "Ok")

VersionIdle ==
    /\ files = <<>>
    /\ hashes = {}
    /\ version_last = [op |-> "none", id |-> NoVersion, primary_file |-> {},
                       answer |-> ""]

ProjectIdle ==
    /\ mods = {}
    /\ versions = {}
    /\ blobs = {}
    /\ create = CreateIdle
    /\ project_last = ProjectLastNone

\* no request of the index area yet
RequestNone == [op |-> "none", all_ok |-> TRUE]

IndexIdle ==
    /\ search_index = {}
    /\ indexing_queue = <<>>
    /\ request_last = RequestNone

FollowIdle ==
    /\ mod_follows = {}
    /\ mods_follows = [id \in ProjectIdChoices |-> 0]

DownloadsIdle ==
    /\ downloads = <<>>
    /\ versions_downloads = [id \in VersionIds |-> 0]
    /\ mods_downloads = [id \in ProjectIdChoices |-> 0]
    /\ clock = 0
    /\ download = [r \in DownloadRequests |-> DownloadIdle]

NotificationsIdle ==
    /\ notifications = {}
    /\ notifications_actions = {}

\* no follow, no download, no notification yet
ActivityIdle == FollowIdle /\ DownloadsIdle /\ NotificationsIdle

TeamInit ==
    /\ team_members = TeamBuilderMembers(1, "u1")
    /\ team_last = TeamLast("none", NoRow, {}, "Ok")
    /\ VersionIdle
    /\ ProjectIdle
    /\ IndexIdle
    /\ ActivityIdle

TeamNext == AddTeamMember \/ EditTeamMember \/ RemoveTeamMember \/ JoinTeam

SpecTeam == TeamInit /\ [][TeamNext]_vars

\* the team requests together with the reads of the member list
MembersNext ==
    \/ AddTeamMember
    \/ EditTeamMember
    \/ RemoveTeamMember
    \/ JoinTeam
    \/ TeamMembersGet

SpecMembers == TeamInit /\ [][MembersNext]_vars

\* the teams of the invitations
InviteTeams == {1, 2}

\* the bitsets the requests on the invitations name
InvitePerms == {PermissionsDefault, PermissionsALL}

MaxInviteRows == 3

\* team 1 with its owner u1, and the invitation of u2 to team 2, which u2
\* has not accepted; the other rows of team 2 are of users that send no
\* request and are left out
InviteInit ==
    /\ team_members =
           TeamBuilderMembers(1, "u1")
               \cup { [id |-> 2, team_id |-> 2, user_id |-> "u2", role |-> "Member",
                       permissions |-> PermissionsDefault, accepted |-> FALSE] }
    /\ team_last = TeamLast("none", NoRow, {}, "Ok")
    /\ VersionIdle
    /\ ProjectIdle
    /\ IndexIdle
    /\ ActivityIdle

InviteNext ==
    \/ AddTeamMemberIn(InviteTeams, InvitePerms, MaxInviteRows)
    \/ EditTeamMemberIn(InviteTeams, InvitePerms)
    \/ JoinTeamIn(InviteTeams)

SpecInvite == InviteInit /\ [][InviteNext]_vars

\* u1 owns the team of vA and u2 the team of vB
VersionInit ==
    /\ team_members = TeamBuilderMembers(1, "u1") \cup TeamBuilderMembers(2, "u2")
    /\ team_last = TeamLast("none", NoRow, {}, "Ok")
    /\ files = InitialFiles
    /\ hashes = InitialHashes
    /\ version_last = [op |-> "none", id |-> NoVersion, primary_file |-> {},
                       answer |-> ""]
    /\ ProjectIdle
    /\ IndexIdle
    /\ ActivityIdle

VersionNext == VersionEdit

SpecVersion == VersionInit /\ [][VersionNext]_vars

\* the store before the project_create request: two projects, one whose id is
\* the one "aaa" denotes and one whose slug is "a_a", each with its team
InitialMods ==
    { [id |-> ParseBase62(<<"a", "a", "a">>), slug |-> NoSlug, team_id |-> 1,
       status |-> "processing", columns |-> CreatedColumns],
      [id |-> ParseBase62(<<"1", "0", "0", "0">>), slug |-> <<"a", "_", "a">>,
       team_id |-> 2, status |-> "processing", columns |-> CreatedColumns] }

InitialTeamMembers ==
    { [id |-> 1, team_id |-> 1, user_id |-> "u1", role |-> OWNER_ROLE,
       permissions |-> PermissionsALL, accepted |-> TRUE],
      [id |-> 2, team_id |-> 2, user_id |-> "u2", role |-> OWNER_ROLE,
       permissions |-> PermissionsALL, accepted |-> TRUE] }

\* one project_create request against that store
CreateInit ==
    /\ team_members = InitialTeamMembers
    /\ team_last = TeamLast("none", NoRow, {}, "Ok")
    /\ VersionIdle
    /\ mods = InitialMods
    /\ versions = {}
    /\ blobs = {}
    /\ create = [CreateIdle EXCEPT !.pc = "start"]
    /\ project_last = ProjectLastNone
    /\ IndexIdle
    /\ ActivityIdle

CreateNext == CreateData \/ CreateField \/ CreateFinish \/ CreateFailed \/ CreateCommit

SpecCreate == CreateInit /\ [][CreateNext]_vars

\* a store that holds version vB with one file and its hash, then one
\* VersionBuilder::insert and get_full requests
ItemInit ==
    /\ TeamIdle
    /\ version_last = [op |-> "none", id |-> NoVersion, primary_file |-> {},
                       answer |-> ""]
    /\ \E store \in { VersionFileBuilderInsert(
                          [url |-> "cdn", filename |-> "a.jar",
                           hashes |-> {<<"sha1", "h1">>}],
                          "f3", "vB", [files |-> <<>>, hashes |-> {}]) } :
          /\ files = store.files
          /\ hashes = store.hashes
    /\ mods = {}
    /\ versions = VersionRowInsert({}, "vB", 2)
    /\ blobs = {}
    /\ create = CreateIdle
    /\ project_last = ProjectLastNone
    /\ search_index = {}
    /\ indexing_queue = <<>>
    /\ request_last = ItemLastNone
    /\ ActivityIdle

ItemNext == VersionBuilderInsert \/ VersionItemGetFull

SpecItem == ItemInit /\ [][ItemNext]_vars

\* no notification, then one Notification::insert and get requests
NotificationInit ==
    /\ TeamIdle
    /\ VersionIdle
    /\ ProjectIdle
    /\ search_index = {}
    /\ indexing_queue = <<>>
    /\ request_last = NotificationLastNone
    /\ ActivityIdle

NotificationNext == NotificationInsert \/ NotificationGetOne

SpecNotification == NotificationInit /\ [][NotificationNext]_vars

\* ids are serialized and deserialized
IdsInit ==
    /\ TeamIdle
    /\ VersionIdle
    /\ ProjectIdle
    /\ search_index = {}
    /\ indexing_queue = <<>>
    /\ request_last = IdsLastNone
    /\ ActivityIdle

IdsNext == EncodeIds \/ DecodeId

SpecIds == IdsInit /\ [][IdsNext]_vars

\* an empty store, then project_create and project_edit requests
SlugInit ==
    /\ TeamIdle
    /\ VersionIdle
    /\ ProjectIdle
    /\ IndexIdle
    /\ ActivityIdle

SlugNext == ProjectCreateNoFiles \/ ProjectEdit

SpecSlug == SlugInit /\ [][SlugNext]_vars

\* the project the requests edit, and another one
EditedId == ParseBase62(<<"a", "a", "a">>)

OtherId == ParseBase62(<<"1", "0", "0", "0">>)

\* the columns with every url set
FilledColumns ==
    [f \in TextColumns \cup UrlColumns |->
        IF f = "categories" THEN {"c1"} ELSE "v0"]

\* a team_members row of an accepted member
MemberRow(id, team_id, user_id, role, permissions) ==
    [id |-> id, team_id |-> team_id, user_id |-> user_id, role |-> role,
     permissions |-> permissions, accepted |-> TRUE]

\* the store before the project_edit request: the edited project in team 1,
\* owned by u1, with or without u2 and the moderator m1 as members holding a
\* few bits, indexed when it is approved; and another project in team 2,
\* owned by u2, whose slug may be the string of the edited project's id
EditInit ==
    /\ \E status \in {"processing", "approved"},
          other_slug \in {<<"a", "_", "a">>, <<"a", "a", "a">>} :
         /\ mods = { [id |-> EditedId, slug |-> NoSlug, team_id |-> 1,
                      status |-> status, columns |-> FilledColumns],
                     [id |-> OtherId, slug |-> other_slug, team_id |-> 2,
                      status |-> "processing", columns |-> CreatedColumns] }
         /\ search_index = IF IsSearchable(status) THEN {EditedId} ELSE {}
    /\ \E u2_rows \in { {}, {MemberRow(3, 1, "u2", "Member", {EDIT_DETAILS})},
                           {MemberRow(3, 1, "u2", "Member", {EDIT_BODY})} },
          m1_rows \in { {}, {MemberRow(4, 1, "m1", "Member", {EDIT_BODY})} } :
         team_members = InitialTeamMembers \cup u2_rows \cup m1_rows
    /\ team_last = TeamLast("none", NoRow, {}, "Ok")
    /\ VersionIdle
    /\ versions = {}
    /\ blobs = {}
    /\ create = CreateIdle
    /\ project_last = ProjectLastNone
    /\ indexing_queue = <<>>
    /\ request_last = RequestNone
    /\ ActivityIdle

EditNext == ProjectEditFields

\* the store of EditInit with any three or fewer categories on the edited
\* project
CategoriesInit ==
    /\ \E initial \in { c \in SUBSET CategoryNames : Cardinality(c) <= 3 } :
         mods = { [id |-> EditedId, slug |-> NoSlug, team_id |-> 1,
                   status |-> "processing",
                   columns |-> [FilledColumns EXCEPT !["categories"] = initial]],
                  [id |-> OtherId, slug |-> <<"a", "_", "a">>, team_id |-> 2,
                   status |-> "processing", columns |-> CreatedColumns] }
    /\ \E u2_rows \in { {}, {MemberRow(3, 1, "u2", "Member", {EDIT_DETAILS})},
                           {MemberRow(3, 1, "u2", "Member", {EDIT_BODY})} } :
         team_members = InitialTeamMembers \cup u2_rows
    /\ team_last = TeamLast("none", NoRow, {}, "Ok")
    /\ VersionIdle
    /\ versions = {}
    /\ blobs = {}
    /\ create = CreateIdle
    /\ project_last = ProjectLastNone
    /\ IndexIdle
    /\ ActivityIdle

\* the first project_edit request against the store, naming the categories
ProjectEditCategories ==
    /\ request_last.op = "none"
    /\ ProjectEditWith({EditedId}, CategoryRequests)

CategoriesNext == ProjectEditCategories

SpecCategories == CategoriesInit /\ [][CategoriesNext]_vars

SpecEdit == EditInit /\ [][EditNext]_vars

\* the store the icon requests see: the first project, in team 1, with a png
\* icon on the file host, and the second, in team 2, with no icon; u2 is also
\* a member of team 1 without EDIT_DETAILS
IconInit ==
    /\ mods = { [id |-> EditedId, slug |-> NoSlug, team_id |-> 1,
                 status |-> "approved", columns |-> CreatedColumns,
                 icon_url |-> {IconUrl(IconFileName(EditedId, <<"p", "n", "g">>))}],
                [id |-> OtherId, slug |-> NoSlug, team_id |-> 2,
                 status |-> "approved", columns |-> CreatedColumns,
                 icon_url |-> {}] }
    /\ blobs = { [file_name |-> IconFileName(EditedId, <<"p", "n", "g">>),
                  bytes |-> "b0"] }
    /\ team_members =
           InitialTeamMembers \cup {MemberRow(3, 1, "u2", "Member", {EDIT_BODY})}
    /\ team_last = TeamLast("none", NoRow, {}, "Ok")
    /\ VersionIdle
    /\ versions = {}
    /\ create = CreateIdle
    /\ project_last = ProjectLastNone
    /\ IndexIdle
    /\ ActivityIdle

\* the first project, the second, or an id no project has
ProjectIconEdit ==
    ProjectIconEditWith({EditedId, OtherId, ParseBase62(<<"A", "a", "a">>)}, "b1")

IconNext == ProjectIconEdit

SpecIcon == IconInit /\ [][IconNext]_vars

\* an empty store and an empty index, then project_create, project_edit and
\* project_delete requests and the indexing task
IndexInit ==
    /\ TeamIdle
    /\ VersionIdle
    /\ ProjectIdle
    /\ IndexIdle
    /\ ActivityIdle

IndexNext ==
    ProjectCreateRequest \/ ProjectEditStatus \/ ProjectDelete \/ IndexQueueDrain

SpecIndex == IndexInit /\ [][IndexNext]_vars

\* the versions rows of vA and vB: vA is a version of the first project and vB
\* of the second
InitialVersions ==
    { [id |-> "vA", project_id |-> EditedId, index |-> 1, date_published |-> 1,
       featured |-> FALSE, game_versions |-> {"g1"}, loaders |-> {"l1"}],
      [id |-> "vB", project_id |-> OtherId, index |-> 1, date_published |-> 1,
       featured |-> FALSE, game_versions |-> {"g1"}, loaders |-> {"l1"}] }

\* the store the reads see: the first project, in team 1, in any status, with
\* or without u2 invited to its team (or having accepted); the second, in
\* team 2, approved; one version each, of two files
ReadInit ==
    /\ \E status \in Statuses :
         mods = { [id |-> EditedId, slug |-> <<"a", "_", "a">>, team_id |-> 1,
                   status |-> status, columns |-> CreatedColumns],
                  [id |-> OtherId, slug |-> NoSlug, team_id |-> 2,
                   status |-> "approved", columns |-> CreatedColumns] }
    /\ \E u2_rows \in { {}, {MemberRow(3, 1, "u2", "Member", PermissionsDefault)},
                           {[MemberRow(3, 1, "u2", "Member", PermissionsDefault)
                               EXCEPT !.accepted = FALSE]} } :
         team_members = InitialTeamMembers \cup u2_rows
    /\ team_last = TeamLast("none", NoRow, {}, "Ok")
    /\ files = InitialFiles
    /\ hashes = InitialHashes
    /\ version_last = [op |-> "none", id |-> NoVersion, primary_file |-> {},
                       answer |-> ""]
    /\ versions = InitialVersions
    /\ blobs = {}
    /\ create = CreateIdle
    /\ project_last = ProjectLastNone
    /\ IndexIdle
    /\ ActivityIdle

ReadNext ==
    \/ ProjectGet \/ ProjectSlugGet \/ ProjectsGet
    \/ VersionGet \/ VersionsGet \/ VersionList \/ GetVersionFromHash

SpecRead == ReadInit /\ [][ReadNext]_vars

\* the store the deletes see: two projects with a version each; u2 may have a
\* row in the first project's team, with one bit or invited with none, and so
\* may the moderator m1, with no bit
DeleteInit ==
    /\ mods = { [id |-> EditedId, slug |-> <<"a", "_", "a">>, team_id |-> 1,
                 status |-> "processing", columns |-> CreatedColumns],
                [id |-> OtherId, slug |-> NoSlug, team_id |-> 2,
                 status |-> "approved", columns |-> CreatedColumns] }
    /\ \E u2_rows \in { {}, {MemberRow(3, 1, "u2", "Member", {DELETE_VERSION})},
                           {MemberRow(3, 1, "u2", "Member", {DELETE_PROJECT})},
                           {MemberRow(3, 1, "u2", "Member", {EDIT_DETAILS})},
                           {[MemberRow(3, 1, "u2", "Member", PermissionsDefault)
                               EXCEPT !.accepted = FALSE]} },
           m1_rows \in { {}, {MemberRow(4, 1, "m1", "Member", PermissionsDefault)} } :
         team_members = InitialTeamMembers \cup u2_rows \cup m1_rows
    /\ team_last = TeamLast("none", NoRow, {}, "Ok")
    /\ files = InitialFiles
    /\ hashes = InitialHashes
    /\ version_last = [op |-> "none", id |-> NoVersion, primary_file |-> {},
                       answer |-> ""]
    /\ versions = InitialVersions
    /\ blobs = {}
    /\ create = CreateIdle
    /\ project_last = ProjectLastNone
    /\ search_index = {OtherId}
    /\ indexing_queue = <<>>
    /\ request_last = RequestNone
    /\ ActivityIdle

DeleteNext == VersionDelete \/ ProjectDelete \/ ModDelete

SpecDelete == DeleteInit /\ [][DeleteNext]_vars

\* the most versions the listed project has
MaxVersions == 3

\* a versions row of the listed project
ListedVersion(i, date, featured, game_versions, loaders) ==
    [id |-> <<"vA", "vB", "vC", "vD", "vE">>[i], project_id |-> EditedId, index |-> i,
     date_published |-> date, featured |-> featured,
     game_versions |-> game_versions, loaders |-> loaders]

\* the rows a version of the listed project may be: published at one of two
\* dates, featured or not, for no game version, for both with the first
\* loader, or for the first with the second loader
ListedChoices(i) ==
    { ListedVersion(i, date, featured, tags[1], tags[2]) :
        date \in {1, 2}, featured \in BOOLEAN,
        tags \in { <<{}, {"l1"}>>, <<{"g1", "g2"}, {"l1"}>>, <<{"g1"}, {"l2"}>> } }

\* the versions tables of n rows
RECURSIVE ListedStores(_)
ListedStores(n) ==
    IF n = 0 THEN {{}}
    ELSE { rows \cup {r} : rows \in ListedStores(n - 1), r \in ListedChoices(n) }

\* the store version_list reads: one project with up to MaxVersions versions
ListInit ==
    /\ mods = { [id |-> EditedId, slug |-> <<"a", "_", "a">>, team_id |-> 1,
                 status |-> "approved", columns |-> CreatedColumns] }
    /\ versions \in UNION { ListedStores(n) : n \in 0..MaxVersions }
    /\ team_members = InitialTeamMembers
    /\ team_last = TeamLast("none", NoRow, {}, "Ok")
    /\ VersionIdle
    /\ blobs = {}
    /\ create = CreateIdle
    /\ project_last = ProjectLastNone
    /\ search_index = {EditedId}
    /\ indexing_queue = <<>>
    /\ request_last = RequestNone
    /\ ActivityIdle

\* version_list on the listed project, by anyone
VersionListFeatured == VersionListWith({NoUser}, {ToBase62(EditedId)})

ListNext == VersionListFeatured

SpecList == ListInit /\ [][ListNext]_vars

\* the store the downloads see: the two projects with a version each, the
\* files and their hashes, no download yet
DownloadInit ==
    /\ mods = { [id |-> EditedId, slug |-> <<"a", "_", "a">>, team_id |-> 1,
                 status |-> "approved", columns |-> CreatedColumns],
                [id |-> OtherId, slug |-> NoSlug, team_id |-> 2,
                 status |-> "approved", columns |-> CreatedColumns] }
    /\ team_members = InitialTeamMembers
    /\ team_last = TeamLast("none", NoRow, {}, "Ok")
    /\ files = InitialFiles
    /\ hashes = InitialHashes
    /\ version_last = [op |-> "none", id |-> NoVersion, primary_file |-> {},
                       answer |-> ""]
    /\ versions = InitialVersions
    /\ blobs = {}
    /\ create = CreateIdle
    /\ project_last = ProjectLastNone
    /\ search_index = {EditedId, OtherId}
    /\ indexing_queue = <<>>
    /\ request_last = RequestNone
    /\ FollowIdle
    /\ NotificationsIdle
    /\ downloads = <<>>
    /\ versions_downloads = [id \in VersionIds |-> 0]
    /\ mods_downloads = [id \in ProjectIdChoices |-> 0]
    /\ clock \in ClockStarts
    /\ download = [r \in DownloadRequests |-> DownloadIdle]

DownloadNext ==
    \/ \E r \in DownloadRequests :
          \/ DownloadStart(r) \/ DownloadCheck(r) \/ DownloadInsert(r)
          \/ DownloadUpdateVersion(r) \/ DownloadUpdateMod(r)
    \/ Tick

SpecDownload == DownloadInit /\ [][DownloadNext]_vars

\* the store the follows see: an approved project that nobody follows yet
FollowInit ==
    /\ mods = { [id |-> EditedId, slug |-> <<"a", "_", "a">>, team_id |-> 1,
                 status |-> "approved", columns |-> CreatedColumns] }
    /\ team_members = InitialTeamMembers
    /\ team_last = TeamLast("none", NoRow, {}, "Ok")
    /\ VersionIdle
    /\ versions = {}
    /\ blobs = {}
    /\ create = CreateIdle
    /\ project_last = ProjectLastNone
    /\ search_index = {EditedId}
    /\ indexing_queue = <<>>
    /\ request_last = RequestNone
    /\ ActivityIdle

FollowNext == ProjectFollow \/ ProjectUnfollow

SpecFollow == FollowInit /\ [][FollowNext]_vars

(***************************************************************************)
(* Claims about the team area, checked under SpecTeam.                     *)
(***************************************************************************)

\* C3: every permission bitset a successful add_team_member or
\* edit_team_member writes to a row is a subset of the bitset of the row the
\* caller held in that team when the call was made.
C3_GrantWithinGrantor ==
    team_last.op \in {"add", "edit"} =>
        \A p \in team_last.written : Contains(team_last.caller_perms, p)

\* a successful edit by a member who holds less than every bit has written a
\* non-empty bitset
C3_Witness ==
    /\ team_last.op = "edit"
    /\ team_last.result = "Ok"
    /\ team_last.caller_perms # PermissionsALL
    /\ \E p \in team_last.written : p # {}

C5_GrantRequiresBit ==
    [][/\ team_last'.op = "add" =>
            /\ team_last'.result = "Ok" =>
                  /\ team_last'.has_row
                  /\ MANAGE_INVITES \in team_last'.caller_perms
            /\ team_last'.result # "Ok" => team_members' = team_members
       /\ team_last'.op = "edit" =>
            /\ team_last'.result = "Ok" =>
                  /\ team_last'.has_row
                  /\ EDIT_MEMBER \in team_last'.caller_perms
            /\ team_last'.result # "Ok" => team_members' = team_members]_vars

\* a member whose row lacks MANAGE_INVITES was refused an invitation, and the
\* table holds a row a successful invitation made
C5_Witness ==
    /\ team_last.op = "add"
    /\ team_last.has_row
    /\ MANAGE_INVITES \notin team_last.caller_perms
    /\ team_last.result = "AuthenticationError"
    /\ \E r \in team_members : ~r.accepted

(***************************************************************************)
(* Claims about the version area, checked under SpecVersion.               *)
(***************************************************************************)
PrimaryFiles(version_id) ==
    { f \in DOMAIN files : files[f].version_id = version_id /\ files[f].is_primary }

\* C1: whatever version_edit calls set primary_file, each version has at most
\* one file with is_primary = TRUE.
C1_AtMostOnePrimary ==
    \A v \in VersionIds : Cardinality(PrimaryFiles(v)) <= 1

\* C2: after a successful version_edit of version A that designates a file by
\* (algorithm, hash), A has exactly one primary file and that file carries the
\* designated hash.
C2_PrimaryIsDesignated ==
    (version_last.op = "version_edit" /\ version_last.answer = "NoContent"
        /\ version_last.primary_file # {}) =>
      \E f \in FileIds :
        /\ PrimaryFiles(version_last.id) = {f}
        /\ \A d \in version_last.primary_file : f \in FilesWithHash(d)

(***************************************************************************)
(* Claims about project creation, checked under SpecCreate.                *)
(***************************************************************************)
\* the rows of the attempt are in the store
CreateCommitted == \E m \in mods : m.id = create.project_id

\* the store holds no row of the attempt
NothingCommitted ==
    /\ mods = InitialMods
    /\ versions = {}
    /\ team_members = InitialTeamMembers

UploadedBlobs == { create.uploaded_files[i] : i \in 1..Len(create.uploaded_files) }

\* C6: when project_create_inner failed after blobs were uploaded, the
\* deletion of every blob of uploaded_files was invoked, the transaction was
\* rolled back and no project row of the attempt exists.
C6_AllUploadsUndone ==
    (create.pc = "done" /\ create.inner # "Ok" /\ create.uploaded_files # <<>>) =>
        /\ UploadedBlobs \subseteq create.delete_invoked
        /\ create.rollback_invoked
        /\ ~CreateCommitted

\* C7: when project_create has returned, either the project is committed and
\* every blob the attempt uploaded is in the blob store, or it is not
\* committed and none of them is.
C7_StoresAgree ==
    create.pc = "done" =>
        \/ CreateCommitted /\ UploadedBlobs \subseteq blobs
        \/ ~CreateCommitted /\ UploadedBlobs \cap blobs = {}

\* each version holds, once each, the file_parts it declared
UploadedExactlyDeclared ==
    \A i \in 1..Len(create.declared) :
        /\ Len(create.builder_files[i]) = Len(create.declared[i])
        /\ \A n \in {"a", "b"} :
              Cardinality({k \in 1..Len(create.declared[i]) : create.declared[i][k] = n})
            = Cardinality({k \in 1..Len(create.builder_files[i]) :
                               create.builder_files[i][k] = n})

C10_CreateSlugCollision ==
    create.pc = "done" =>
        /\ (create.data_ok /\ \E m \in InitialMods : create.slug = ToBase62(m.id)) =>
              /\ create.inner = "SlugCollision"
              /\ create.rollback_ok => create.answer = "SlugCollision"
              /\ create.answer # "Ok"
              /\ NothingCommitted
        /\ (\E m \in InitialMods : create.slug = m.slug) =>
              create.answer # "Ok" /\ NothingCommitted

\* a request whose slug is the string of an existing id was answered
\* SlugCollision
C10_Witness ==
    /\ create.pc = "done"
    /\ \E m \in InitialMods : create.slug = ToBase62(m.id)
    /\ create.answer = "SlugCollision"

(***************************************************************************)
(* Claims about the slugs, checked under SpecSlug.                         *)
(***************************************************************************)
\* C9: no stored slug is the base-62 string of the id of another project of
\* the table, whichever of the two was created first, and no two projects
\* have the same slug.
C9_SlugNeverAnId ==
    \A p \in mods : \A q \in mods :
        (p # q /\ p.slug # NoSlug) =>
            /\ p.slug # ToBase62(q.id)
            /\ p.slug # q.slug

(***************************************************************************)
(* Claims about project_edit, checked under SpecEdit.                      *)
(***************************************************************************)
\* the row of the project the last request named, as the request left it
EditedRow == { m \in mods : m.id = request_last.id }

\* the fields the last request names
PresentFields == { f \in EditFieldNames : request_last.new_project[f] # {} }

\* C11: a project_edit whose slug parses as the id of a project that has a row
\* is not answered Ok and leaves the project's row as it was, slug and every
\* other column, also when the slug is the slug of another project; a caller
\* who holds every bit and names no other field is answered InvalidInputError.
C11_SlugIdCollisionRejected ==
    (/\ request_last.op = "project_edit"
     /\ \E v \in request_last.new_project["slug"] :
           v # NoSlug /\ \E m \in mods : m.id = ParseBase62(v)) =>
        /\ request_last.answer # "Ok"
        /\ EditedRow = request_last.before
        /\ (/\ request_last.permissions = {PermissionsALL}
            /\ PresentFields = {"slug"}) => request_last.answer = "InvalidInputError"

\* the owner asked for a new title and for a slug that is both the string of
\* the project's id and the slug of the other project, and was refused
C11_Witness ==
    /\ request_last.op = "project_edit"
    /\ request_last.user = "u1"
    /\ request_last.id = EditedId
    /\ request_last.new_project["slug"] = {<<"a", "a", "a">>}
    /\ request_last.new_project["title"] = {"v1"}
    /\ \E m \in mods : m.id = OtherId /\ m.slug = <<"a", "a", "a">>
    /\ request_last.answer = "InvalidInputError"

\* C12: after a project_edit answered Ok, each url column is what it was when
\* the request did not name the field, NULL when the request gave null, and
\* the request's value when it gave one.
C12_UrlThreeValued ==
    (request_last.op = "project_edit" /\ request_last.answer = "Ok") =>
        \A u \in UrlColumns : \A b \in request_last.before : \A a \in EditedRow :
            /\ request_last.new_project[u] = {} => a.columns[u] = b.columns[u]
            /\ \A v \in request_last.new_project[u] : a.columns[u] = v

\* a request that gave null for the wiki url and did not name the issues url:
\* the first is cleared and the second kept
C12_Witness ==
    /\ request_last.op = "project_edit"
    /\ request_last.answer = "Ok"
    /\ request_last.new_project["wiki_url"] = {Null}
    /\ request_last.new_project["issues_url"] = {}
    /\ \A b \in request_last.before :
          b.columns["wiki_url"] # Null /\ b.columns["issues_url"] # Null
    /\ \A a \in EditedRow :
          a.columns["wiki_url"] = Null /\ a.columns["issues_url"] # Null

\* the bitset the caller of the last request is entitled to: every bit for a
\* moderator or admin, the bits of the team_members row for a member, none
\* for anyone else
EffectivePermissions ==
    IF IsMod(request_last.user) THEN PermissionsALL
    ELSE IF request_last.member # NoRow THEN request_last.member.permissions
    ELSE {}

\* the bit the caller is to hold for a field: EDIT_BODY for the body,
\* EDIT_DETAILS for every other field
FieldBit(f) == IF f = "body" THEN EDIT_BODY ELSE EDIT_DETAILS

\* a field of the request whose bit the caller lacks
MissingBitFields ==
    { f \in PresentFields : FieldBit(f) \notin EffectivePermissions }

\* the last request was a project_edit of an existing project by an
\* authenticated caller
EditOfExisting ==
    /\ request_last.op = "project_edit"
    /\ request_last.user # NoUser
    /\ request_last.before # {}

FieldIndex(f) == CHOOSE i \in 1..Len(EditOrder) : EditOrder[i] = f

C14_ModeratorHasEveryBit ==
    (EditOfExisting /\ IsMod(request_last.user)) =>
        request_last.permissions = {PermissionsALL}

\* C15: a project_edit answered Ok that names a status puts the project's id
\* on the indexing queue, once, when the project was not searchable and the
\* new status is; calls delete_from_index for the id, once, when the project
\* was searchable and the new status is not; and does neither otherwise.
C15_StatusCrossingIndexes ==
    (request_last.op = "project_edit" /\ request_last.answer = "Ok") =>
        \A b \in request_last.before : \A v \in request_last.new_project["status"] :
            /\ (~IsSearchable(b.status) /\ IsSearchable(v)) =>
                  /\ request_last.upserts = <<b.id>>
                  /\ request_last.deletes = <<>>
                  /\ indexing_queue = <<b.id>>
            /\ (IsSearchable(b.status) /\ ~IsSearchable(v)) =>
                  /\ request_last.deletes = <<b.id>>
                  /\ request_last.upserts = <<>>
                  /\ b.id \notin search_index
            /\ (IsSearchable(b.status) = IsSearchable(v)) =>
                  /\ request_last.upserts = <<>>
                  /\ request_last.deletes = <<>>

\* a moderator approved the project that was in processing: its id is on the
\* queue
C15_Witness ==
    /\ request_last.op = "project_edit"
    /\ request_last.answer = "Ok"
    /\ request_last.new_project["status"] = {"approved"}
    /\ \A b \in request_last.before : b.status = "processing"
    /\ request_last.upserts = <<EditedId>>
    /\ \E m \in mods : m.id = EditedId /\ m.status = "approved"

(***************************************************************************)
(* Claims about the search index, checked under SpecIndex.                 *)
(***************************************************************************)
\* C16: when every request so far was answered Ok and the indexing queue is
\* empty, the index holds a document for an id exactly when a project with
\* that id exists and its status is searchable.
C16_IndexMatchesSearchable ==
    (request_last.all_ok /\ indexing_queue = <<>>) =>
        search_index = { m.id : m \in { x \in mods : IsSearchable(x.status) } }

(***************************************************************************)
(* Claims about the read endpoints, checked under SpecRead.                *)
(***************************************************************************)
\* the caller of the last request is a moderator or has a row, accepted or
\* not, in the team
ModOrMember(team_id) ==
    /\ request_last.user # NoUser
    /\ \/ IsMod(request_last.user)
       \/ \E t \in team_members :
             t.team_id = team_id /\ t.user_id = request_last.user

\* C17: project_get, project_slug_get and projects_get return, of the projects
\* the store found, the ones that are not hidden, to every caller, and the
\* hidden ones to the authenticated callers who are moderators or have a row
\* in the team, and no other; the single-project endpoints answer NotFound
\* when they return nothing.
C17_HiddenProjectGated ==
    request_last.op \in {"project_get", "project_slug_get", "projects_get"} =>
        /\ request_last.returned =
              { m.id : m \in { x \in request_last.found :
                                  ~IsHidden(x.status) \/ ModOrMember(x.team_id) } }
        /\ (request_last.op # "projects_get" /\ request_last.returned = {}) =>
              request_last.answer = "NotFound"

\* the invited member who has not accepted got the hidden project
C17_Witness ==
    /\ request_last.op = "project_get"
    /\ request_last.user = "u2"
    /\ \E t \in team_members : t.user_id = "u2" /\ t.team_id = 1 /\ ~t.accepted
    /\ \E m \in mods : m.id = EditedId /\ IsHidden(m.status)
    /\ request_last.returned = {EditedId}

\* C18: the version endpoints return no version of a hidden project to a
\* caller who is neither a moderator nor a member of the team.
C18_HiddenVersionGated ==
    request_last.op \in {"version_get", "versions_get", "version_list",
                         "get_version_from_hash"} =>
        \A v \in request_last.version_found :
            (v.id \in request_last.version_returned) =>
                \A m \in mods :
                    (m.id = v.project_id /\ IsHidden(m.status)) =>
                        ModOrMember(m.team_id)

(***************************************************************************)
(* Claims about the deletes, checked under SpecDelete.                     *)
(***************************************************************************)
\* C19: version_delete by a caller who is no moderator and whose row in the
\* team lacks DELETE_VERSION answers with the authorization error and leaves
\* the version; by a moderator it removes an existing version, whether or not
\* the moderator has a row in the team (unless the store fails).
C19_VersionDeleteGated ==
    request_last.op = "version_delete" =>
        /\ ( /\ request_last.user # NoUser
             /\ ~IsMod(request_last.user)
             /\ request_last.member # NoRow
             /\ DELETE_VERSION \notin request_last.member.permissions ) =>
                /\ request_last.answer = "CustomAuthenticationError"
                /\ request_last.version_before \subseteq versions
        /\ ( /\ IsMod(request_last.user)
             /\ request_last.version_before # {}
             /\ request_last.answer # "DatabaseError" ) =>
                /\ request_last.answer = "NoContent"
                /\ request_last.version_before \cap versions = {}

\* a moderator with no row in the team has deleted a version
C19_Witness ==
    /\ request_last.op = "version_delete"
    /\ IsMod(request_last.user)
    /\ request_last.member = NoRow
    /\ request_last.version_before # {}
    /\ request_last.answer = "NoContent"
    /\ request_last.version_before \cap versions = {}

\* C20: project_delete and mod_delete by a moderator remove an existing
\* project, whether or not the moderator has a row in the team (unless the
\* store or the search index fails).
C20_ModeratorDeletesAnyProject ==
    ( /\ request_last.op \in {"project_delete", "mod_delete"}
      /\ IsMod(request_last.user)
      /\ request_last.before # {}
      /\ request_last.answer \notin {"DatabaseError", "IndexingError"} ) =>
        /\ request_last.answer = "Ok"
        /\ request_last.before \cap mods = {}

\* C21: a caller who is no moderator and whose row in the team, accepted or
\* not, lacks DELETE_PROJECT does not get the project deleted by project_delete
\* or mod_delete.
C21_DeleteNeedsBit ==
    ( /\ request_last.op \in {"project_delete", "mod_delete"}
      /\ request_last.user # NoUser
      /\ ~IsMod(request_last.user)
      /\ request_last.member # NoRow
      /\ DELETE_PROJECT \notin request_last.member.permissions ) =>
        /\ request_last.answer # "Ok"
        /\ request_last.before \subseteq mods

(***************************************************************************)
(* Claims about following, checked under SpecFollow.                       *)
(***************************************************************************)
\* the request before the last one was a project_follow of the same user on
\* the same project, and it was answered Ok
FollowedJustBefore ==
    /\ request_last.op = "project_follow"
    /\ request_last.previous =
          <<"project_follow", request_last.user, request_last.id, "Ok">>

\* C22: a project_follow answered Ok raises the project's follows counter by
\* exactly one and adds the user's row; a project_follow that comes right
\* after a successful one of the same user on the same project is answered
\* that the user already follows and leaves the counter and the rows as they
\* were.
C22_SecondFollowRejected ==
    request_last.op = "project_follow" =>
        /\ request_last.answer = "Ok" =>
              /\ mods_follows =
                    [request_last.follows_before EXCEPT ![request_last.id] = @ + 1]
              /\ FollowRow(request_last.user, request_last.id)
                    \notin request_last.rows_before
              /\ mod_follows = request_last.rows_before
                    \cup {FollowRow(request_last.user, request_last.id)}
        /\ FollowedJustBefore =>
              /\ request_last.answer = "AlreadyFollowing"
              /\ mods_follows = request_last.follows_before
              /\ mod_follows = request_last.rows_before

\* the second of two follows in a row was refused, the counter at one
C22_Witness ==
    /\ FollowedJustBefore
    /\ request_last.answer = "AlreadyFollowing"
    /\ mods_follows[request_last.id] = 1
    /\ mod_follows = {FollowRow(request_last.user, request_last.id)}

(***************************************************************************)
(* Claims about version_list, checked under SpecList.                      *)
(***************************************************************************)
\* the (game version, loader) pairs at least one of the versions covers
CoveredPairs(found) ==
    { p \in { <<g, l>> : g \in UNION { v.game_versions : v \in found },
                         l \in UNION { v.loaders : v \in found } } :
        \E v \in found : p[1] \in v.game_versions /\ p[2] \in v.loaders }

\* the ids are those of one version for each covered pair: some choice of a
\* covering version per pair has them as its values
OnePerPair(ids, found) ==
    \E choice \in [CoveredPairs(found) -> found] :
        /\ \A p \in CoveredPairs(found) :
              p[1] \in choice[p].game_versions /\ p[2] \in choice[p].loaders
        /\ ids = { choice[p].id : p \in CoveredPairs(found) }

C24_ListDedupedAndSorted ==
    request_last.op = "version_list" =>
        /\ \A i, j \in 1..Len(request_last.response) :
              i # j => request_last.response[i].id # request_last.response[j].id
        /\ \A i, j \in 1..Len(request_last.response) :
              i < j => request_last.response[i].date_published
                          >= request_last.response[j].date_published

(***************************************************************************)
(* Further claims about teams, checked under SpecTeam.                     *)
(***************************************************************************)
\* the users that hold the role "Owner" in the team, in a set of rows
OwnersOf(rows, team_id) ==
    { r.user_id : r \in { x \in rows : x.team_id = team_id /\ x.role = "Owner" } }

\* C31: the members with the role "Owner" are members that held it when the
\* team was created, whatever add_team_member and edit_team_member calls
\* were made, and no step adds one.
C31_OwnersNeverGrow ==
    [][\A t \in Teams :
          /\ OwnersOf(team_members', t) \subseteq OwnersOf(team_members, t)
          /\ OwnersOf(team_members', t) \subseteq {"u1"}]_vars

\* the last request asked for the role "Owner" for the second member, came
\* from a caller holding every bit, and was refused
C31_Witness ==
    /\ team_last.op \in {"add", "edit"}
    /\ team_last.role = {"Owner"}
    /\ team_last.user_id = "u2"
    /\ team_last.has_row
    /\ team_last.caller_perms = PermissionsALL
    /\ team_last.result = "AuthenticationError"
    /\ \E r \in team_members : r.user_id = "u2" /\ r.role = "Member"

\* the row of the table with the id of the given row, if there is one
SameRow(rows, r) == { q \in rows : q.id = r.id }

\* C37: a row's accepted flag goes from false to true only in a join_team
\* request of the row's user for the row's team; a row add_team_member
\* creates is not accepted; edit_team_member leaves every accepted flag as
\* it is; join_team changes no role, no permissions and no row of another
\* user.  Checked under SpecInvite.
C37_AcceptedOnlyByJoin ==
    [][/\ \A r \in team_members : \A q \in SameRow(team_members', r) :
             (~r.accepted /\ q.accepted) =>
                 /\ team_last'.op = "join"
                 /\ team_last'.caller = r.user_id
                 /\ team_last'.team_id = r.team_id
       /\ team_last'.op = "add" =>
             \A q \in team_members' \ team_members : ~q.accepted
       /\ team_last'.op = "edit" =>
             \A r \in team_members : \A q \in SameRow(team_members', r) :
                 q.accepted = r.accepted
       /\ team_last'.op = "join" =>
             /\ \A r \in team_members : \A q \in SameRow(team_members', r) :
                   /\ q.role = r.role
                   /\ q.permissions = r.permissions
                   /\ r.user_id # team_last'.caller => q = r
             /\ { q.id : q \in team_members' } = { r.id : r \in team_members }]_vars

\* u2, invited to both teams, has joined team 1 and not team 2
C37_Witness ==
    /\ team_last.op = "join"
    /\ team_last.caller = "u2"
    /\ team_last.team_id = 1
    /\ \E r \in team_members : r.team_id = 1 /\ r.user_id = "u2" /\ r.accepted
    /\ \E r \in team_members : r.team_id = 2 /\ r.user_id = "u2" /\ ~r.accepted

\* C40: no two rows of the table are of the same team and the same user.
C40_OneRowPerUser ==
    \A r, q \in team_members :
        (r.team_id = q.team_id /\ r.user_id = q.user_id) => r = q

(***************************************************************************)
(* The follows counter against the follow rows, checked under SpecFollow.  *)
(***************************************************************************)
\* C33: the follows counter of every project is the number of its follow
\* rows, whatever follows and unfollows were served and whichever of their
\* statements failed.
C33_CounterEqualsRows ==
    \A id \in DOMAIN mods_follows :
        mods_follows[id] = Cardinality({ r \in mod_follows : r.mod_id = id })

(***************************************************************************)
(* Failed and moderated edits: C34 and C35 are checked under SpecIndex,   *)
(* C36 under SpecEdit.                                                     *)
(***************************************************************************)
\* C34: a project_edit request that answers an error leaves the mods table,
\* the search index and the indexing queue as they were.
C34_FailedEditChangesNothing ==
    [][(ProjectEditStatus /\ request_last'.answer # "Ok")
         => /\ mods' = mods
            /\ search_index' = search_index
            /\ indexing_queue' = indexing_queue]_vars

\* C35: once the status edits of a project have all been answered Ok and the
\* indexing task has emptied the queue, the index holds the project's
\* document exactly when its committed status is searchable.
C35_IndexFollowsFinalStatus ==
    (request_last.all_ok /\ indexing_queue = <<>>) =>
        \A m \in mods : (m.id \in search_index) <=> IsSearchable(m.status)

\* C36: a step in which a project's status becomes approved or rejected is a
\* project_edit of a moderator; no other caller brings it about, whatever
\* bits their row holds.
C36_OnlyModeratorsDecide ==
    [][\A m \in mods' :
         (m.status \in ModStatuses
            /\ ~ \E o \in mods : o.id = m.id /\ o.status = m.status)
         => /\ request_last'.op = "project_edit"
            /\ request_last'.id = m.id
            /\ IsMod(request_last'.user)]_vars

\* the owner, holding every bit, asked for approved and was refused; the
\* status is the one from before
C36_Witness ==
    /\ request_last.op = "project_edit"
    /\ request_last.user = "u1"
    /\ request_last.permissions = {PermissionsALL}
    /\ request_last.new_project["status"] = {"approved"}
    /\ request_last.answer = "CustomAuthenticationError"
    /\ request_last.before # {}
    /\ \A b \in request_last.before : b \in mods /\ b.status \notin ModStatuses

(***************************************************************************)
(* The files of a created project, by name, checked under SpecCreate.      *)
(***************************************************************************)
\* C38: a project_create answers Ok only when every version holds each of its
\* declared file_parts exactly once; a request that sends one declared name
\* twice and leaves another one out is refused.
C38_OkOnlyWhenEachPartOnce ==
    (create.pc = "done" /\ create.answer = "Ok") => UploadedExactlyDeclared

(***************************************************************************)
(* The icon of a project after a failed request, checked under SpecIcon.   *)
(***************************************************************************)
\* C39: after a project_icon_edit that answers an error, the blob of the icon
\* the project had is still on the file host, with its bytes, and the
\* project's icon_url is the one from before.
C39_FailedIconEditKeepsIcon ==
    (request_last.op = "project_icon_edit" /\ request_last.answer # "Ok") =>
        /\ request_last.before \subseteq mods
        /\ request_last.icon_before \subseteq blobs

(***************************************************************************)
(* The member list of a team, checked under SpecMembers.                   *)
(***************************************************************************)
\* the table with every bitset cleared: what two tables that differ only in
\* permissions have in common
ErasePermissions(rows) == { [r EXCEPT !.permissions = {}] : r \in rows }

\* the members of a team with the bits of their rows
MembersShown(rows, team_id) ==
    { [row |-> r.id, user_id |-> r.user_id, role |-> r.role,
       permissions |-> r.permissions] :
        r \in { q \in rows : q.team_id = team_id } }

\* C32: the member list shows the stored bitsets only to a logged-in caller
\* who has a row in that team; for every other caller the list is the one of
\* the table with all bitsets cleared, so it tells nothing about them.
C32_BitsOnlyToMembers ==
    team_last.op = "get" =>
        IF /\ team_last.caller # NoUser
           /\ \E r \in team_members :
                  r.team_id = team_last.team_id /\ r.user_id = team_last.caller
        THEN team_last.response = MembersShown(team_members, team_last.team_id)
        ELSE team_last.response =
                 MembersShown(ErasePermissions(team_members), team_last.team_id)

\* u2, logged in but with no row in team 1, has read the list of a team whose
\* owner holds every bit and was shown none of them
C32_Witness ==
    /\ team_last.op = "get"
    /\ team_last.caller = "u2"
    /\ ~ \E r \in team_members : r.team_id = 1 /\ r.user_id = "u2"
    /\ \E r \in team_members : r.team_id = 1 /\ r.permissions = PermissionsALL
    /\ team_last.response # {}
    /\ \A m \in team_last.response : m.permissions = {}

(***************************************************************************)
(* Claims about the categories of a project, checked under SpecCategories. *)
(***************************************************************************)
\* the names a list holds
NamesOf(list) == { list[i] : i \in 1..Len(list) }

\* C29: a project_edit answered Ok whose categories are a list of at most
\* three names the store holds leaves the project with exactly the
\* categories of the list; a list of more than three names, or one with a
\* name the store does not hold, is not answered Ok and leaves the project's
\* row, its categories among the rest, as it was.
C29_CategoriesReplaced ==
    request_last.op = "project_edit" =>
        \A list \in request_last.new_project["categories"] :
            /\ ( /\ request_last.answer = "Ok"
                 /\ Len(list) <= 3
                 /\ NamesOf(list) \subseteq {"c1", "c2", "c3"} ) =>
                   \A a \in EditedRow : a.columns["categories"] = NamesOf(list)
            /\ ( \/ Len(list) > 3
                 \/ ~(NamesOf(list) \subseteq {"c1", "c2", "c3"}) ) =>
                   /\ request_last.answer # "Ok"
                   /\ EditedRow = request_last.before

\* a member holding EDIT_DETAILS replaced the one category of the project by
\* two others
C29_Witness ==
    /\ request_last.op = "project_edit"
    /\ request_last.user = "u2"
    /\ request_last.answer = "Ok"
    /\ request_last.new_project["categories"] = {<<"c3", "c2">>}
    /\ \A b \in request_last.before : b.columns["categories"] = {"c1"}
    /\ \A a \in EditedRow : a.columns["categories"] = {"c2", "c3"}

(***************************************************************************)
(* Claims about the team of a created project, checked under SpecCreate.   *)
(***************************************************************************)
\* the team members of the project the attempt created
CreatedTeamMembers ==
    { r \in team_members :
        \E m \in mods : m.id = create.project_id /\ r.team_id = m.team_id }

\* C26: once project_create has succeeded, the team of the new project has
\* exactly one member: the caller, with role "Owner", every permission bit
\* and accepted.
C26_SoleOwnerMember ==
    (create.pc = "done" /\ create.answer = "Ok") =>
        /\ Cardinality(CreatedTeamMembers) = 1
        /\ \A r \in CreatedTeamMembers :
              /\ r.user_id = create.user
              /\ r.role = "Owner"
              /\ r.permissions = 0..7
              /\ r.accepted = TRUE

C26_Witness ==
    /\ create.pc = "done"
    /\ create.answer = "Ok"
    /\ CreateCommitted
    /\ Cardinality(CreatedTeamMembers) = 1
    /\ Cardinality(team_members) = 3

(***************************************************************************)
(* Claims about the version rows, checked under SpecItem.                  *)
(***************************************************************************)
\* C27: when get_full reads a version that VersionBuilder::insert wrote with
\* k files, the view lists exactly those k files, each with the (algorithm,
\* hash) pairs of its builder.
C27_ViewListsBuilderFiles ==
    ( /\ request_last.op = "version_get_full"
      /\ request_last.version_id \in request_last.built ) =>
        \A view \in request_last.view :
            /\ Cardinality(view.files) = Len(request_last.builder_files)
            /\ { [url |-> f.url, filename |-> f.filename, hashes |-> f.hashes] :
                    f \in view.files }
               = { request_last.builder_files[i] :
                    i \in 1..Len(request_last.builder_files) }

(***************************************************************************)
(* Claims about notifications, checked under SpecNotification.             *)
(***************************************************************************)
\* how often the pair of title and route occurs in a list of actions
Occurrences(actions, title, action_route) ==
    Cardinality({ i \in 1..Len(actions) :
                    /\ actions[i].title = title
                    /\ actions[i].action_route = action_route })

\* C28: Notification::get of an inserted notification returns as many
\* actions as were given, with the same titles and routes; none when none
\* was given.
C28_ActionsRoundTrip ==
    ( /\ request_last.op = "notification_get"
      /\ request_last.notification_id \in request_last.inserted ) =>
        \A n \in request_last.result :
            /\ Len(n.actions) = Len(request_last.given)
            /\ \A t \in TextChoices, r \in TextChoices :
                  Occurrences(n.actions, t, r)
                      = Occurrences(request_last.given, t, r)

(***************************************************************************)
(* Claims about identifiers, checked under SpecIds.                        *)
(***************************************************************************)
\* C30: decoding the string of an id gives the id back, and two ids with the
\* same string are the same id.
C30_Base62RoundTrip ==
    /\ request_last.op = "decode" => request_last.decoded = {request_last.id}
    /\ request_last.op \in {"encode", "decode"} =>
          (request_last.encoded = request_last.other_encoded
              => request_last.id = request_last.other)

\* the largest 64-bit id came back from its eleven digits, next to an id
\* that shares its low 32 bits
C30_Witness ==
    /\ request_last.op = "decode"
    /\ request_last.id = <<65535, 65535, 65535, 65535>>
    /\ request_last.other = <<0, 0, 65535, 65535>>
    /\ Len(request_last.encoded) = 11
    /\ request_last.decoded = {request_last.id}

(***************************************************************************)
(* Claims about downloads, checked under SpecDownload.                     *)
(***************************************************************************)
\* C25: no two increments of a version's download counter for one address
\* are less than thirty minutes apart.
C25_OneCountPerWindow ==
    request_last.op = "download_version" =>
        \A i, j \in 1..Len(request_last.counted) :
            ( /\ i < j
              /\ request_last.counted[i].version_id = request_last.counted[j].version_id
              /\ request_last.counted[i].identifier = request_last.counted[j].identifier )
            => request_last.counted[j].date - request_last.counted[i].date >= WindowTicks

====
